---- MODULE Spec2Model ----
(***************************************************************************)
(* Model of lcapy's unilateral Laplace transform engines                   *)
(* (src/lcapy/inverse_laplace.py, src/lcapy/laplace.py).                   *)
(*                                                                         *)
(* Symbolic expressions are represented by their shape.  An expression is  *)
(* a product [const, fs]: a numeric constant and an ordered sequence of    *)
(* factors ("leaves").  A transform result is a sum of symbolic terms,     *)
(* represented as a bag of atoms: the number of copies of an atom is its   *)
(* numeric coefficient.                                                    *)
(***************************************************************************)
EXTENDS Integers, Sequences, FiniteSets, Bags, TLC

VARIABLES
    expr,       \* inverse transform: the expression handed to term
    kw,         \* inverse transform: the keyword arguments (causal, damped_sin) and
                \* whether the substrate provides sym.Gamma
    out,        \* inverse transform: the position of term (path), the delay extracted and
                \* the outcome of the rule last tried; at the end, what term returned or raised
    poles,      \* ratfun pole loop: the list of poles of M/D
    polesdict,  \* ratfun pole loop: remaining multiplicity of every pole
    idx,        \* ratfun pole loop: position of the for loop in poles
    uacc,       \* ratfun pole loop: uresult accumulated so far
    emitted,    \* ratfun pole loop: the poles each emitted term accounts for, in order
    name,       \* naming: the current function name (a sequence of characters)
    orig,       \* naming: the name the round trip started from
    trail,      \* naming: the rules applied so far ("F" forward, "I" inverse)
    lin,        \* linearity: the input a, b, f, g and the flags
    linout,     \* linearity: the dispatcher results for a*f + b*g, f and g
    fexpr,      \* forward transform: the expression handed to term
    fout,       \* forward transform: the position of term (pos), the rules tried so far
                \* and the outcome; at the end, what term returned or raised
    symbols,    \* symbol registry: state.context.symbols, a map from names to symbols
    user_symbols,   \* symbol registry: the names in state.global_context.user_symbols
    domain_symbols, \* symbol registry: the names in state.global_context.domain_symbols
    symcall,    \* symbol registry: the last call, with the names it passed to symbol_delete
    symret,     \* symbol registry: the symbols of the expression the last call returned
    filt,       \* DLTIFilter.response: the filter (a, b) and the arguments x, ic, ni
                \* (ic_none: ic is None)
    y_tot,      \* DLTIFilter.response: the initial conditions and the outputs computed
    fi,         \* DLTIFilter.response: the position (pos) and the loop index i
    ret_seq,    \* DLTIFilter.response: what the call returned or raised
    state,      \* State: context, previous_context and every context's assumptions
    global_assumptions,     \* SymPy's global_assumptions
    calls,      \* State: the calls of switch_context and restore_context made so far
    cnodes,     \* Cnodes: the tuple of common nodes of every node
    linked,     \* Cnodes: the arguments of the last call of link
    graph,      \* Graph: the nodes in the order of the dictionary, with fedges and redges
    dist,       \* Graph: gnode.dist of every node whose dist is not None
    gpath,      \* Graph: the GraphPath under construction
    gpos,       \* Graph: gnode.pos of every node whose pos is not None
    unknown,    \* Graph.analyse: the list of nodes without position
    ana         \* Graph: the call (op), its position (stage, at) and its outcome

iltVars == <<expr, kw, out>>
rfVars == <<poles, polesdict, idx, uacc, emitted>>
nmVars == <<name, orig, trail>>
linVars == <<lin, linout>>
fwdVars == <<fexpr, fout>>
\* the variables of the parts added after the first four
symVars == <<symbols, user_symbols, domain_symbols, symcall, symret>>
dfVars == <<filt, y_tot, fi, ret_seq>>
ctxVars == <<state, global_assumptions, calls>>
\* the variables of the parts added last
cnVars == <<cnodes, linked>>
grVars == <<graph, dist, gpath, gpos, unknown, ana>>
lateVars == <<ctxVars, cnVars, grVars>>
moreVars == <<fwdVars, symVars, dfVars, lateVars>>
\* the variables of the other parts, for each of the later parts
firstVars == <<iltVars, rfVars, nmVars, linVars>>
fwdOthers == <<firstVars, symVars, dfVars, lateVars>>
symOthers == <<firstVars, fwdVars, dfVars, lateVars>>
dfOthers == <<firstVars, fwdVars, symVars, lateVars>>
earlyVars == <<firstVars, fwdVars, symVars, dfVars>>
ctxOthers == <<earlyVars, cnVars, grVars>>
cnOthers == <<earlyVars, ctxVars, grVars>>
grOthers == <<earlyVars, ctxVars, cnVars>>
vars == <<expr, kw, out, poles, polesdict, idx, uacc, emitted, name, orig, trail, lin, linout, fexpr, fout,
          symbols, user_symbols, domain_symbols, symcall, symret, filt, y_tot, fi, ret_seq,
          state, global_assumptions, calls, cnodes, linked, graph, dist, gpath, gpos, unknown, ana>>

(***************************************************************************)
(* Bounds of the model.                                                    *)
(***************************************************************************)
MaxDelay == 2       \* known delays range over -MaxDelay..MaxDelay
MaxConst == 2       \* numeric constant factors range over 1..MaxConst
MaxMult == 3        \* pole multiplicities range over 1..MaxMult
MaxPoles == 3       \* length of a pole list
MaxNameLen == 2     \* length of a function name

(***************************************************************************)
(* Delays.  A delay is v + t*T where T is a symbol whose sign SymPy cannot *)
(* determine: is_negative and is_positive are both None when t # 0.        *)
(***************************************************************************)
DZero == [v |-> 0, t |-> 0]

DSub(d, c) == [v |-> d.v - c.v, t |-> d.t - c.t]

IsNegative(d) == d.t = 0 /\ d.v < 0

IsPositive(d) == d.t = 0 /\ d.v > 0

(***************************************************************************)
(* Atoms of a result.  k is the kind of term; nm names the function and a  *)
(* the pole; n, m and div are the integer parameters of the kind; sub      *)
(* holds the operands of a derivative, an integral or a convolution; ce    *)
(* counts the constant factors exp(c1) the atom is multiplied by; gate is  *)
(* the unit step the atom is multiplied by and shift the delay substituted *)
(* into it (t replaced by t - shift).                                      *)
(***************************************************************************)
NoGate == [on |-> FALSE, at |-> DZero]

Atom(k, nm, a, n, m, div, sub) ==
    [k |-> k, nm |-> nm, a |-> a, n |-> n, m |-> m, div |-> div, sub |-> sub,
     ce |-> 0, gate |-> NoGate, shift |-> DZero]

Zero == EmptyBag

One(atom) == SetToBag({atom})

\* Constants are n * exp(c1)**e.
CNum(n) == [n |-> n, e |-> 0]

CMul(c1, c2) == [n |-> c1.n * c2.n, e |-> c1.e + c2.e]

\* const * result
Scale(c, b) ==
    LET f(x) == [x EXCEPT !.ce = @ + c.e]
        src(y) == CHOOSE x \in DOMAIN b : f(x) = y
    IN [y \in {f(x) : x \in DOMAIN b} |-> c.n * b[src(y)]]

\* result.subs(t, t - delay)
Subs(b, delay) ==
    LET sh(x) == [x EXCEPT !.shift = delay]
        src(y) == {x \in DOMAIN b : sh(x) = y}
    IN [y \in {sh(x) : x \in DOMAIN b} |-> b[CHOOSE x \in src(y) : TRUE]]

\* result * Heaviside(t - delay)
TimesHeaviside(b, delay) ==
    LET g(x) == [x EXCEPT !.gate = [on |-> TRUE, at |-> delay]]
        src(y) == {x \in DOMAIN b : g(x) = y}
    IN [y \in {g(x) : x \in DOMAIN b} |-> b[CHOOSE x \in src(y) : TRUE]]

IsDelta(x) == x.k \in {"delta", "fdelta"}

(***************************************************************************)
(* Leaves of an expression in s.                                           *)
(*   undef  an applied unknown function V(sc*s + sh)                       *)
(*   rat    a rational function of s, with what Ratfun reports about it    *)
(*   pow    s**a with a not an integer; sg is the sign SymPy knows for a   *)
(*   exp    exp(c0*s + c1), whose exponent is a polynomial of degree 1     *)
(*          in s; d holds c0                                               *)
(*   econst exp(c1), a constant                                            *)
(*   hid    a rational function with a delay hidden in it, such as         *)
(*          1/(s**2*exp(5*s) + s*exp(5*s)); simplify exposes it            *)
(*   mess   an expression no rule recognises until it is simplified        *)
(*   other  an expression no rule recognises, such as 1/sqrt(s + 1); ok    *)
(*          says whether SymPy's own inverse transform resolves it         *)
(*   oexp   the same, containing an exponential, such as exp(-sqrt(s))     *)
(*   sum    a sum of expressions                                           *)
(***************************************************************************)
NoRat == [nn |-> 0, nd |-> 0, q |-> <<>>, poles |-> <<>>, spow |-> 0, inf |-> FALSE,
          over |-> FALSE]

Leaf(k, a, d, r, sub) ==
    [k |-> k, a |-> a, d |-> d, r |-> r, sub |-> sub, nm |-> <<>>, sc |-> 1, sh |-> 0]

\* nm(sc*s + sh)
Undef(nm, sc, sh) == [Leaf("undef", "", DZero, NoRat, <<>>) EXCEPT !.nm = nm, !.sc = sc, !.sh = sh]

Rat(r) == Leaf("rat", "", DZero, r, <<>>)

PowS(sg) == Leaf("pow", sg, DZero, NoRat, <<>>)

ExpS(c0, c1) == Leaf("exp", IF c1 = 0 THEN "" ELSE "c1", c0, NoRat, <<>>)

EConst == Leaf("econst", "", DZero, NoRat, <<>>)

Hid(d, r) == Leaf("hid", "", d, r, <<>>)

Mess(r) == Leaf("mess", "", DZero, r, <<>>)

Other(ok) == Leaf("other", IF ok THEN "ok" ELSE "", DZero, NoRat, <<>>)

OtherExp(ok) == Leaf("oexp", IF ok THEN "ok" ELSE "", DZero, NoRat, <<>>)

SumOf(terms) == Leaf("sum", "", DZero, NoRat, terms)

Ex(c, fs) == [const |-> c, fs |-> fs]

(***************************************************************************)
(* Function names.  A name is a non-empty sequence of characters; Upper    *)
(* and Lower are Python's str.upper and str.lower on one character, which  *)
(* return a string: the sharp s ("sz") has the two-character upper case    *)
(* "SS" and no single-character one.                                       *)
(***************************************************************************)
Chars == {"v", "V", "x", "X", "s", "S", "sz", "_"}

Upper(ch) ==
    CASE ch = "v" -> <<"V">>
      [] ch = "x" -> <<"X">>
      [] ch = "s" -> <<"S">>
      [] ch = "sz" -> <<"S", "S">>
      [] OTHER -> <<ch>>

Lower(ch) ==
    CASE ch = "V" -> <<"v">>
      [] ch = "X" -> <<"x">>
      [] ch = "S" -> <<"s">>
      [] OTHER -> <<ch>>

\* name.upper(): the naming rule if it upper-cased the whole name
RECURSIVE UpperName(_)
UpperName(nm) == IF nm = <<>> THEN <<>> ELSE Upper(Head(nm)) \o UpperName(Tail(nm))

\* name[0].upper() + name[1:]
FwdName(nm) == Upper(Head(nm)) \o Tail(nm)

\* name[0].lower() + name[1:]
InvName(nm) == Lower(Head(nm)) \o Tail(nm)

(***************************************************************************)
(* Results of a rule: ok with the value, or the exception raised.          *)
(***************************************************************************)
Ok2(c, u, diag) == [ok |-> TRUE, c |-> c, u |-> u, err |-> "", diag |-> diag]

Raise(err) == [ok |-> FALSE, c |-> Zero, u |-> Zero, err |-> err, diag |-> {}]

\* The exceptions that are no ValueError; self.error and the rules' own raise statements
\* raise ValueError
OtherErrors ==
    {"RecursionError", "AttributeError: Gamma", "IndexError: dcoeffs[2]", "IndexError",
     "NotImplementedError", "TypeError: cannot determine truth value of Relational"}

IsValueError(r) == ~r.ok /\ r.err \notin OtherErrors

(***************************************************************************)
(* Shape predicates of the algebra substrate.                              *)
(***************************************************************************)
IsAppliedUndef(e) == Len(e.fs) = 1 /\ e.fs[1].k = "undef"

RECURSIVE LeafHas(_, _)
LeafHas(f, kinds) ==
    \/ f.k \in kinds
    \/ \E i \in DOMAIN f.sub : \E j \in DOMAIN f.sub[i].fs : LeafHas(f.sub[i].fs[j], kinds)

\* expr.has(AppliedUndef)
HasUndef(e) == \E i \in DOMAIN e.fs : LeafHas(e.fs[i], {"undef"})

\* expr.has(sym.exp)
HasExp(e) == \E i \in DOMAIN e.fs : LeafHas(e.fs[i], {"exp", "econst", "hid", "oexp"})

\* factor_const(expr, s): the factors not depending on s, and the rest
FactorConst(e) ==
    LET isc(f) == f.k = "econst"
        ne == Cardinality({i \in DOMAIN e.fs : isc(e.fs[i])})
    IN [const |-> CMul(e.const, [n |-> 1, e |-> ne]),
        rest |-> Ex(CNum(1), SelectSeq(e.fs, LAMBDA f : ~isc(f)))]

(***************************************************************************)
(* InverseLaplaceTransformer.delay_factor                                  *)
(***************************************************************************)
RECURSIVE delay_loop(_, _, _, _)
delay_loop(fs, i, delay, rest) ==
    IF i > Len(fs) THEN [rest |-> rest, delay |-> delay]
    ELSE LET f == fs[i] IN
         IF f.k = "exp"
         THEN delay_loop(fs, i + 1, DSub(delay, f.d),
                         IF f.a # "" THEN Append(rest, EConst) ELSE rest)
         ELSE delay_loop(fs, i + 1, delay, Append(rest, f))

delay_factor(e) ==
    LET r == delay_loop(e.fs, 1, DZero, <<>>)
    IN [rest |-> Ex(e.const, r.rest), delay |-> r.delay]

(***************************************************************************)
(* InverseLaplaceTransformer.func                                          *)
(***************************************************************************)
func(e, lvl) ==
    IF ~IsAppliedUndef(e) THEN Raise("Expecting function")
    ELSE LET f == e.fs[1]
             \* undef.subs(t, t / scale) / abs(scale) [* exp(t * shift / scale)]
         IN Ok2(One(Atom("func", InvName(f.nm), lvl, f.sc, f.sh, f.sc, <<>>)), Zero, {})

(***************************************************************************)
(* InverseLaplaceTransformer.power                                         *)
(***************************************************************************)
\* expr.is_Pow and expr.args[0] == s; the plain symbol s (spow = 1) is no Pow
IsPowOfS(e) ==
    /\ Len(e.fs) = 1
    /\ \/ e.fs[1].k = "pow"
       \/ e.fs[1].k = "rat" /\ e.fs[1].r.spow \notin {0, 1}

\* exponent.is_positive, exponent.is_negative
ExpSign(f) ==
    IF f.k = "pow" THEN f.a
    ELSE IF f.r.spow > 0 THEN "pos" ELSE "neg"

power(e, gamma) ==
    IF ~IsPowOfS(e) THEN Raise("Expression not a power of s")
    ELSE LET sg == ExpSign(e.fs[1]) IN
         IF sg = "pos" THEN Ok2(One(Atom("fdelta", <<>>, 0, 0, 0, 1, <<>>)), Zero, {})
         ELSE IF sg = "neg"
              THEN IF gamma THEN Ok2(One(Atom("tpow", <<>>, 0, 0, 0, 1, <<>>)), Zero, {})
                   ELSE Raise("AttributeError: Gamma")
              ELSE Raise("Cannot determine sign of exponent")

(***************************************************************************)
(* What Ratfun reports about an expression: it is a rational function only *)
(* when it is a single rational leaf.  r.nn and r.nd are the numbers of    *)
(* numerator and denominator coefficients, r.q the quotient's coefficients *)
(* in descending powers, r.poles the poles of M/D (p the pole, n its       *)
(* multiplicity, conj its conjugate), r.inf whether M/D has an infinite    *)
(* factor and r.over whether zeta is a constant greater than 1.            *)
(***************************************************************************)
ROne == [nn |-> 1, nd |-> 1, q |-> <<1>>, poles |-> <<>>, spow |-> 0, inf |-> FALSE,
         over |-> FALSE]

IsRatfun(e) ==
    \/ Len(e.fs) = 0
    \/ Len(e.fs) = 1 /\ e.fs[1].k \in {"rat", "sum"} /\ e.fs[1].r # NoRat

RatOf(e) == IF Len(e.fs) = 0 THEN ROne ELSE e.fs[1].r

Max(a, b) == IF a > b THEN a ELSE b

RatDegree(r) == Max(r.nn, r.nd) - 1

(***************************************************************************)
(* InverseLaplaceTransformer.do_damped_sin                                 *)
(***************************************************************************)
DSin(n) == Atom("dsin", <<>>, 0, n, 0, 1, <<>>)

Delta(n) == Atom("delta", <<>>, 0, n, 0, 1, <<>>)

do_damped_sin(r) ==
    LET diag == IF r.over THEN {"Warning: expression is overdamped"} ELSE {} IN
    IF r.nn > 3 \/ r.nd > 3 THEN Raise("Not a second-order response")
    ELSE IF r.nd < 3 THEN Raise("IndexError: dcoeffs[2]")
    ELSE IF r.nn = 1 THEN Ok2(Zero, One(DSin(1)), diag)
    ELSE IF r.nn = 2 THEN Ok2(Zero, One(DSin(2)), diag)
    ELSE Ok2(One(Delta(0)), One(DSin(3)), diag)

(***************************************************************************)
(* InverseLaplaceTransformer.ratfun: the quotient                          *)
(***************************************************************************)
\* the loop if it paired the n-th coefficient of the descending list with the derivative
\* of order n - 1
RECURSIVE quotient_loop_ascending(_, _, _)
quotient_loop_ascending(C, n, cresult) ==
    IF n > Len(C) THEN cresult
    ELSE quotient_loop_ascending(C, n + 1,
            IF C[n] = 0 THEN cresult
            ELSE cresult (+) Scale(CNum(C[n]), One(Delta(n - 1))))

RECURSIVE quotient_loop(_, _, _)
quotient_loop(C, n, cresult) ==
    IF n > Len(C) THEN cresult
    ELSE quotient_loop(C, n + 1,
            IF C[n] = 0 THEN cresult
            ELSE cresult (+) Scale(CNum(C[n]), One(Delta(Len(C) - n))))

(***************************************************************************)
(* InverseLaplaceTransformer.ratfun: the loop over the poles.  The loop    *)
(* state is the multiplicity map, uresult and, for each group of terms     *)
(* added, the poles it accounts for, the remaining multiplicity o it was   *)
(* added for and the branch that added it.                                 *)
(***************************************************************************)
\* for pole in poles: polesdict[pole.expr] = pole.n
BuildDict(ps) ==
    [p \in {ps[i].p : i \in DOMAIN ps} |->
        ps[CHOOSE i \in DOMAIN ps :
              ps[i].p = p /\ \A j \in DOMAIN ps : ps[j].p = p => j <= i].n]

ExpTerm(p, tpow, m, div) == Atom("exp", <<>>, p, tpow, m, div, <<>>)

\* the loop over n if it did not divide by bino
RECURSIVE repeated_loop_nobino(_, _, _, _, _)
repeated_loop_nobino(p, o, n, bino, uresult) ==
    IF n > o THEN uresult
    ELSE repeated_loop_nobino(p, o, n + 1, bino * n, uresult (+) One(ExpTerm(p, n - 1, o - n, 1)))

\* r * exp(p*t) * t**(n - 1) / bino for n = 1..o, r the limit of the m-th derivative / m!
RECURSIVE repeated_loop(_, _, _, _, _)
repeated_loop(p, o, n, bino, uresult) ==
    IF n > o THEN uresult
    ELSE repeated_loop(p, o, n + 1, bino * n,
                       uresult (+) One(ExpTerm(p, n - 1, o - n, bino)))

PoleStep(st, pole) ==
    LET p == pole.p
        o == st.dict[p]
        pc == pole.conj
    IN IF o = 0 THEN st
       ELSE IF o = 1 THEN
            IF pc # p /\ pc \in DOMAIN st.dict
            THEN [dict |-> [st.dict EXCEPT ![pc] = @ - 1],
                  u |-> (st.u (+) Scale(CNum(2), One(Atom("cos", <<>>, p, 0, 0, 1, <<>>))))
                             (+) Scale(CNum(2), One(Atom("negsin", <<>>, p, 0, 0, 1, <<>>))),
                  em |-> Append(st.em, [poles |-> {p, pc}, o |-> o, kind |-> "fold"])]
            ELSE [dict |-> st.dict,
                  u |-> st.u (+) One(ExpTerm(p, 0, 0, 1)),
                  em |-> Append(st.em, [poles |-> {p}, o |-> o, kind |-> "simple"])]
       ELSE [dict |-> st.dict,
             u |-> repeated_loop(p, o, 1, 1, st.u),
             em |-> Append(st.em, [poles |-> {p}, o |-> o, kind |-> "repeated"])]

RECURSIVE pole_loop(_, _, _)
pole_loop(ps, i, st) ==
    IF i > Len(ps) THEN st ELSE pole_loop(ps, i + 1, PoleStep(st, ps[i]))

(***************************************************************************)
(* InverseLaplaceTransformer.ratfun                                        *)
(***************************************************************************)
ratfun(e, kwargs) ==
    IF ~IsRatfun(e) THEN Raise("Ratfun: not a rational function, or unhandled delay")
    ELSE LET r == RatOf(e) IN
         IF kwargs.damped_sin /\ RatDegree(r) = 2 THEN do_damped_sin(r)
         ELSE LET cresult == quotient_loop(r.q, 1, Zero) IN
              IF r.inf THEN Ok2(Zero, One(Atom("oo", <<>>, 0, 0, 0, 1, <<>>)), {})
              ELSE Ok2(cresult,
                       pole_loop(r.poles, 1,
                                 [dict |-> BuildDict(r.poles), u |-> Zero, em |-> <<>>]).u,
                       {})

(***************************************************************************)
(* Operations of the algebra substrate on shapes.                          *)
(***************************************************************************)
\* as_ordered_factors: powers of s come before the functions
Ordered(fs) ==
    SelectSeq(fs, LAMBDA f : f.k # "undef") \o SelectSeq(fs, LAMBDA f : f.k = "undef")

RECURSIVE SimplifyFs(_, _)
SimplifyFs(fs, i) ==
    IF i > Len(fs) THEN <<>>
    ELSE LET f == fs[i]
             g == CASE f.k = "hid" -> <<ExpS(f.d, 0), Rat(f.r)>>
                    [] f.k = "mess" -> <<Rat(f.r)>>
                    [] OTHER -> <<f>>
         IN g \o SimplifyFs(fs, i + 1)

\* expr.simplify()
Simplify(e) == Ex(e.const, SimplifyFs(e.fs, 1))

\* expr.expand(deep=False).as_ordered_terms(): distribute over the first sum factor
RECURSIVE ExpandTerms(_), ExpandEach(_, _)
ExpandTerms(e) ==
    LET sums == {i \in DOMAIN e.fs : e.fs[i].k = "sum"} IN
    IF sums = {} THEN <<e>>
    ELSE LET i == CHOOSE j \in sums : \A l \in sums : j <= l
             pre == SubSeq(e.fs, 1, i - 1)
             post == SubSeq(e.fs, i + 1, Len(e.fs))
             ts == e.fs[i].sub
         IN ExpandEach([n \in DOMAIN ts |->
                            Ex(CMul(e.const, ts[n].const), pre \o ts[n].fs \o post)], 1)

ExpandEach(ts, n) ==
    IF n > Len(ts) THEN <<>> ELSE ExpandTerms(ts[n]) \o ExpandEach(ts, n + 1)

\* Whether SymPy's inverse_laplace_transform resolves the expression
RECURSIVE SympyResolves(_)
SympyResolves(e) ==
    \A i \in DOMAIN e.fs :
        LET f == e.fs[i] IN
        CASE f.k \in {"rat", "hid", "mess"} -> f.r.q = <<>>
          [] f.k = "pow" -> f.a = "neg"
          [] f.k \in {"other", "oexp"} -> f.a = "ok"
          [] f.k \in {"exp", "econst"} -> TRUE
          [] f.k = "sum" -> \A j \in DOMAIN f.sub : SympyResolves(f.sub[j])
          [] OTHER -> FALSE

(***************************************************************************)
(* InverseLaplaceTransformer.sympy                                         *)
(***************************************************************************)
sympy(e) ==
    IF SympyResolves(e)
    THEN Ok2(Scale(FactorConst(e).const, One(Atom("sympy", <<>>, 0, 0, 0, 1, <<>>))), Zero, {})
    ELSE Raise("SymPy cannot find inverse Laplace transform")

(***************************************************************************)
(* InverseLaplaceTransformer.term1 and InverseLaplaceTransformer.product.  *)
(* A rule returning one expression returns it in the field c.              *)
(***************************************************************************)
RECURSIVE term1(_, _), product(_, _), product_loop(_, _, _, _, _), product_terms(_, _, _, _, _)

term1(e0, kwargs) ==
    LET fc == FactorConst(e0)
        const == fc.const
        e == fc.rest
    IN IF IsAppliedUndef(e)
       THEN Ok2(Scale(const, func(e, 0).c), Zero, {})
       ELSE IF HasUndef(e)
       THEN LET p == product(e, kwargs) IN
            IF p.ok THEN Ok2(Scale(const, p.c), Zero, p.diag) ELSE p
       ELSE LET r == ratfun(e, kwargs) IN
            IF r.ok THEN Ok2(Scale(const, r.c), Scale(const, r.u), r.diag)
            ELSE IF IsPowOfS(e)
            THEN LET pw == power(e, kwargs.gamma) IN
                 IF pw.ok THEN Ok2(Zero, Scale(const, pw.c), {}) ELSE pw
            ELSE Raise("Cannot determine inverse Laplace transform")

\* The lower limit if every product were taken as causal
T1_causal(kwargs) == "0"

\* The limits of integration chosen by the causal flag
T1(kwargs) == IF kwargs.causal THEN "0" ELSE "-oo"

T2(kwargs) == IF kwargs.causal THEN "t" ELSE "oo"

\* The dummy variable of a level: tau for level 0, and one more name for each level
dummy_var(level) == level

Derivative(b, n) == One(Atom("deriv", <<>>, 0, n, 0, 1, <<b>>))

Integral(b, lvl, lo, hi) == One(Atom("integ", <<lo, hi>>, lvl, 0, 0, 1, <<b>>))

Convolution(b1, b2, lvl, lo, hi) == One(Atom("conv", <<lo, hi>>, lvl, 0, 0, 1, <<b1, b2>>))

product(e0, kwargs) ==
    LET fc == FactorConst(e0)
        const == fc.const
        e == fc.rest
        factors0 == Ordered(e.fs)
        isu(f) == f.k = "undef"
        factors == IF Len(factors0) > 2 /\ ~isu(factors0[2]) /\ isu(factors0[3])
                   THEN <<factors0[1], factors0[3], factors0[2]>>
                            \o SubSeq(factors0, 4, Len(factors0))
                   ELSE factors0
    IN IF Len(factors0) < 2
       THEN IF HasUndef(e) /\ ~IsAppliedUndef(e)
            THEN \* term1 calls product on the same expression again, without end
                 Raise("RecursionError")
            ELSE LET r == term1(e, kwargs) IN
                 IF r.ok THEN Ok2(Scale(const, r.c (+) r.u), Zero, r.diag) ELSE r
       ELSE LET terms == ExpandTerms(Ex(CNum(1), <<factors[1]>>)) IN
            IF isu(factors[2]) /\ Len(terms) >= 2
            THEN product_terms(terms, 1, factors[2], const, kwargs)
            ELSE LET r == term1(Ex(CNum(1), <<factors[1]>>), kwargs) IN
                 IF ~r.ok THEN r
                 ELSE LET l == product_loop(factors, 0, r.c (+) r.u, 0, kwargs) IN
                      IF l.ok THEN Ok2(Scale(const, l.c), Zero, r.diag \cup l.diag) ELSE l

\* result += self.product(factors[1] * term, s, t, **kwargs) for term in terms
product_terms(terms, n, f1, const, kwargs) ==
    IF n > Len(terms) THEN Ok2(Zero, Zero, {})
    ELSE LET p == product(Ex(terms[n].const, Ordered(Append(terms[n].fs, f1))), kwargs) IN
         IF ~p.ok THEN p
         ELSE LET rest == product_terms(terms, n + 1, f1, const, kwargs) IN
              IF ~rest.ok THEN rest
              ELSE Ok2(Scale(const, p.c) (+) rest.c, Zero, p.diag \cup rest.diag)

\* for m in range(len(factors) - 1)
product_loop(factors, m, result, intnum, kwargs) ==
    IF m > Len(factors) - 2 THEN Ok2(result, Zero, {})
    ELSE LET f0 == factors[1]
             f1 == Ex(CNum(1), <<factors[2]>>)
             und == m = 0 /\ factors[2].k = "undef"
             spow == IF f0.k = "rat" THEN f0.r.spow ELSE 0
         IN IF und /\ spow = 1
            THEN product_loop(factors, m + 1, Derivative(func(f1, 0).c, 1), intnum, kwargs)
            ELSE IF und /\ f0.k = "pow" /\ f0.a = "unk"
            THEN Raise("TypeError: cannot determine truth value of Relational")
            ELSE IF und /\ (spow > 1 \/ (f0.k = "pow" /\ f0.a = "pos"))
            THEN product_loop(factors, m + 1, Derivative(func(f1, 0).c, spow), intnum, kwargs)
            ELSE IF und /\ spow = -1
            THEN product_loop(factors, m + 1,
                              Integral(func(f1, dummy_var(intnum) + 1).c, dummy_var(intnum),
                                       T1(kwargs), "t"),
                              intnum + 1, kwargs)
            ELSE LET r == term1(Ex(CNum(1), <<factors[m + 2]>>), kwargs) IN
                 IF ~r.ok THEN r
                 ELSE LET l == product_loop(factors, m + 1,
                                   Convolution(result, r.c (+) r.u, dummy_var(intnum),
                                               T1(kwargs), T2(kwargs)),
                                   intnum + 1, kwargs)
                      IN IF l.ok THEN Ok2(l.c, Zero, r.diag \cup l.diag) ELSE l

\* The delay handling if it raised for every delay not known to be positive
ReapplyStrict(c, u, delay, kwargs) ==
    IF delay # DZero
    THEN IF IsPositive(delay)
         THEN Ok2(Subs(c, delay) (+) TimesHeaviside(Subs(u, delay), delay), Zero, {})
         ELSE Raise("Cannot determine sign of delay")
    ELSE IF kwargs.causal
         THEN Ok2(c (+) TimesHeaviside(u, DZero), Zero, {})
         ELSE Ok2(c, u, {})

(***************************************************************************)
(* InverseLaplaceTransformer.term: the delay handling after term1 has      *)
(* succeeded (lines 382-416).                                              *)
(***************************************************************************)
\* The delay handling if the general part were left in uresult, without a unit step
Reapply_ungated(c, u, delay, kwargs) ==
    IF delay # DZero /\ ~IsNegative(delay)
    THEN Ok2(Subs(c, delay), Subs(u, delay),
             IF ~kwargs.causal THEN {"Warning, assuming causal expression"} ELSE {})
    ELSE ReapplyStrict(c, u, delay, kwargs)

Reapply(c, u, delay, kwargs) ==
    IF delay # DZero
    THEN LET cs == Subs(c, delay)
             us == Subs(u, delay)
             warn == IF ~kwargs.causal THEN {"Warning, assuming causal expression"} ELSE {}
             assume == IF ~IsPositive(delay) THEN {"Assuming delay is positive"} ELSE {}
         IN IF ~IsNegative(delay)
            THEN Ok2(cs (+) TimesHeaviside(us, delay), Zero, warn \cup assume)
            ELSE Raise("Causality violated with time advance")
    ELSE IF kwargs.causal
         THEN Ok2(c (+) TimesHeaviside(u, DZero), Zero, {})
         ELSE Ok2(c, u, {})

\* The delay extraction at the head of term (lines 338-348)
ExtractDelay(e) ==
    LET df == delay_factor(e) IN
    IF df.delay = DZero /\ HasExp(df.rest)
    THEN LET df2 == delay_factor(Simplify(df.rest)) IN
         IF ~HasExp(df2.rest) THEN df2 ELSE df
    ELSE df

\* What term returns or raises, with the stage of the fallback chain at which it did
\* and the delay extracted
Returned(r, path, delay) ==
    [ok |-> r.ok, c |-> r.c, u |-> r.u, err |-> r.err, diag |-> r.diag,
     path |-> path, delay |-> delay]

(***************************************************************************)
(* InverseLaplaceTransformer.term.  Each stage of the fallback chain is an *)
(* operator that receives the outcome of the rule tried before it.         *)
(***************************************************************************)
RECURSIVE term(_, _), term_terms(_, _, _)

\* lines 382-416, reached after either successful call of term1
term_finish(r, delay, kwargs, path) ==
    LET d == Reapply(r.c, r.u, delay, kwargs) IN
    Returned([d EXCEPT !.diag = @ \cup r.diag], path, delay)

\* line 380: return Zero, self.sympy(expr, s, t)
term_sympy(sy, delay) ==
    Returned(IF sy.ok THEN Ok2(Zero, sy.c, {}) ELSE sy, "sympy", delay)

\* lines 377-380: r2 is the outcome of term1 on the simplified expression e2
term_retried(e2, r2, delay, kwargs) ==
    IF r2.ok THEN term_finish(r2, delay, kwargs, "retry") ELSE term_sympy(sympy(e2), delay)

\* lines 375-378
term_retry(e2, delay, kwargs) == term_retried(e2, term1(e2, kwargs), delay, kwargs)

\* lines 359-373: p is the outcome of product on the whole expression
term_expand(terms, p, delay, kwargs) ==
    IF p.ok THEN Returned(Ok2(p.c, Zero, p.diag), "product", delay)
    ELSE Returned(term_terms(terms, 1, kwargs), "terms", delay)

\* lines 355-380: the except branch
term_fallback(e, terms, delay, kwargs) ==
    IF Len(terms) > 1 THEN term_expand(terms, product(e, kwargs), delay, kwargs)
    ELSE term_retry(Simplify(e), delay, kwargs)

\* lines 350-352: r1 is the outcome of term1
term_tried(e, r1, delay, kwargs) ==
    IF r1.ok THEN term_finish(r1, delay, kwargs, "direct")
    ELSE term_fallback(e, ExpandTerms(e), delay, kwargs)

term_delayed(df, kwargs) == term_tried(df.rest, term1(df.rest, kwargs), df.delay, kwargs)

term(e0, kwargs) == term_delayed(ExtractDelay(e0), kwargs)

\* for term in terms: cterm, uterm = self.term(term.simplify(), ...)
term_sum(r, rest) ==
    IF ~r.ok THEN Raise(r.err)
    ELSE IF ~rest.ok THEN rest
    ELSE Ok2(r.c (+) rest.c, r.u (+) rest.u, r.diag \cup rest.diag)

term_terms(terms, n, kwargs) ==
    IF n > Len(terms) THEN Ok2(Zero, Zero, {})
    ELSE term_sum(term(Simplify(terms[n]), kwargs), term_terms(terms, n + 1, kwargs))

(***************************************************************************)
(* Leaves of an expression in t.                                           *)
(*   undef     an applied unknown function v(sc*t + sh)                    *)
(*   deriv     Derivative(v(t), t, n); sc holds n                          *)
(*   texp      exp(c0*t + c1); a is "shift" when c1 # 0                    *)
(*   sincos    sin(w*t + phi) or cos(w*t + phi)                            *)
(*   step0     Heaviside(t)                                                *)
(*   step      Heaviside(t - tau)                                          *)
(*   dirac     DiracDelta(t)                                               *)
(*   integral  an Integral; a is its shape: "accum" for the integral of    *)
(*             x(tau) from -oo to t, "conv" for a convolution, "indef"     *)
(*             for an indefinite integral, "poslower" for a positive lower *)
(*             limit                                                       *)
(*   tother    any other function of t; a is "ok" when SymPy's integrate   *)
(*             resolves its Laplace integral, "crash" when SymPy raises an *)
(*             exception of its own on it, such as NotImplementedError     *)
(*   piecewise a Piecewise; sub holds its first branch, a is "ge0" when    *)
(*             the condition of that branch has t >= 0                     *)
(***************************************************************************)
TLeaf(k, a) == Leaf(k, a, DZero, NoRat, <<>>)

Deriv(nm, n) == [TLeaf("deriv", "") EXCEPT !.nm = nm, !.sc = n]

\* A derivative whose operand or variable is not the expected one: "var" is an applied
\* unknown function differentiated by another variable, "operand" an operand of class nm
\* that is no applied unknown function, differentiated by t, "neither" is both
DerivOf(nm, n, a) == [Deriv(nm, n) EXCEPT !.a = a]

Piecewise(e, cond) == Leaf("piecewise", cond, DZero, NoRat, <<e>>)

HasKind(e, kinds) == \E i \in DOMAIN e.fs : LeafHas(e.fs[i], kinds)

\* the value of a rule of the forward transformer
FAtom(k, nm, n, e) == One(Atom(k, nm, 0, n, 0, 1, e))

(***************************************************************************)
(* LaplaceTransformer.limits, do_0minus and do_0: SymPy's integrate        *)
(* resolves the integral or the rule raises.                               *)
(***************************************************************************)
Integrates(e) ==
    \A i \in DOMAIN e.fs :
        \/ e.fs[i].k \in {"texp", "sincos", "step0", "step", "dirac"}
        \/ e.fs[i].k = "tother" /\ e.fs[i].a = "ok"

limits(e, lower) ==
    IF \E i \in DOMAIN e.fs : e.fs[i].k = "tother" /\ e.fs[i].a = "crash"
    THEN Raise("NotImplementedError")
    ELSE IF Integrates(e) THEN Ok2(FAtom(lower, <<>>, 0, <<e>>), Zero, {})
    ELSE Raise("Expecting piecewise")

do_0minus(e) == limits(e, "from0minus")

do_0(e) == limits(e, "from0")

(***************************************************************************)
(* LaplaceTransformer.func and derivative_undef                            *)
(***************************************************************************)
\* the s-domain shift of the rule v(t) * exp(c0*t) is recorded in m
ffunc(f, shifted) ==
    IF f.k # "undef" THEN Raise("Expecting function")
    ELSE Ok2(One(Atom("F", FwdName(f.nm), 0, f.sc, IF shifted THEN 1 ELSE 0, f.sc,
                      <<f.sh>>)), Zero, {})

derivative_undef(e) ==
    IF ~(Len(e.fs) = 1 /\ e.fs[1].k = "deriv") THEN Raise("Expecting derivative")
    \* lines 157-159: the error needs both conditions
    ELSE IF e.fs[1].a = "neither" THEN Raise("Expecting function of t")
    \* the name is that of the operand's class
    ELSE Ok2(FAtom("Fderiv", FwdName(e.fs[1].nm), e.fs[1].sc, <<>>), Zero, {})

(***************************************************************************)
(* LaplaceTransformer.integral and sin_cos, by the shape of the expression *)
(***************************************************************************)
integral(e) ==
    IF ~(Len(e.fs) = 1 /\ e.fs[1].k = "integral") THEN Raise("Expecting integral")
    ELSE CASE e.fs[1].a = "indef" -> Raise("Require definite integral")
           [] e.fs[1].a = "accum" -> Ok2(FAtom("Fint", FwdName(e.fs[1].nm), 0, <<>>), Zero, {})
           [] e.fs[1].a = "poslower" -> Raise("Cannot handle lower limit")
           [] OTHER -> Ok2(FAtom("Fconv", FwdName(e.fs[1].nm), 0, <<>>), Zero, {})

sin_cos(e) ==
    LET factors == e.fs
        m0 == IF factors[1].k = "texp" THEN 2 ELSE 1
    IN IF Len(factors) > 3 THEN Raise("Not expsin, too many factors")
       ELSE IF m0 > Len(factors) THEN Raise("IndexError")
       ELSE IF factors[m0].k # "sincos" THEN Raise("Not expsin, no sin/cos")
       ELSE IF Len(factors) = m0 + 1 /\ factors[m0 + 1].k \notin {"step0", "step"}
       THEN Raise("Not expsin, no Heaviside")
       \* a third factor after sin/cos without an exponential is not looked at
       ELSE Ok2(FAtom("expsin", <<>>, 0, <<Ex(CNum(1), SubSeq(factors, 1,
                        IF Len(factors) > m0 + 1 THEN m0 ELSE Len(factors)))>>), Zero, {})

(***************************************************************************)
(* LaplaceTransformer.term                                                 *)
(***************************************************************************)
\* lines 258-275
fterm_undef(e) ==
    IF HasKind(e, {"deriv"}) THEN derivative_undef(e)
    ELSE IF Len(e.fs) = 1 THEN ffunc(e.fs[1], FALSE)
    ELSE IF Len(e.fs) > 2 THEN Raise("Cannot handle product")
    ELSE IF e.fs[2].k = "texp" /\ e.fs[2].a # "shift" THEN ffunc(e.fs[1], TRUE)
    ELSE Raise("Cannot handle product")

\* lines 277-286
fterm_integrate(e) ==
    IF HasKind(e, {"step0"})
    THEN do_0(Ex(e.const, SelectSeq(e.fs, LAMBDA f : f.k # "step0")))
    ELSE IF HasKind(e, {"dirac", "step"}) /\ ~IsValueError(do_0minus(e)) THEN do_0minus(e)
    ELSE do_0(e)

\* lines 249-286: the rules tried on an expression that is not a sum
fterm_rules(e) ==
    IF HasKind(e, {"integral"}) THEN integral(e)
    ELSE IF HasKind(e, {"sincos"}) /\ sin_cos(e).ok THEN sin_cos(e)
    ELSE IF HasKind(e, {"undef", "deriv"}) THEN fterm_undef(e)
    ELSE fterm_integrate(e)

\* the sum branch if it returned the sum without the constant
fterm_unscaled(const, r) == r

\* const * result
fterm_scaled(const, r) == IF r.ok THEN Ok2(Scale(const, r.c), Zero, r.diag) ELSE r

\* lines 234-235
StripPiecewise(e) ==
    IF Len(e.fs) = 1 /\ e.const = CNum(1) /\ e.fs[1].k = "piecewise" /\ e.fs[1].a = "ge0"
    THEN e.fs[1].sub[1]
    ELSE e

RECURSIVE fterm(_), fterm_terms(_, _)

\* lines 237-244 and the rules
fterm_split(fc, terms) ==
    IF Len(terms) > 1 THEN fterm_scaled(fc.const, fterm_terms(terms, 1))
    ELSE fterm_scaled(fc.const, fterm_rules(fc.rest))

fterm_factored(fc) == fterm_split(fc, ExpandTerms(fc.rest))

fterm(e0) == fterm_factored(FactorConst(StripPiecewise(e0)))

\* for term in terms: result += self.term(term, t, s)
fterm_terms(terms, n) ==
    IF n > Len(terms) THEN Ok2(Zero, Zero, {})
    ELSE term_sum(fterm(terms[n]), fterm_terms(terms, n + 1))

(***************************************************************************)
(* The inverse transforms checked: sample rational functions and the       *)
(* expressions built from them.                                            *)
(***************************************************************************)
RatData(nn, nd, q, ps, spow) ==
    [nn |-> nn, nd |-> nd, q |-> q, poles |-> ps, spow |-> spow, inf |-> FALSE, over |-> FALSE]

Pole(p, n, conj) == [p |-> p, n |-> n, conj |-> conj]

\* 1/(s + 2)
RSimple == RatData(1, 2, <<>>, <<Pole(3, 1, 3)>>, 0)

\* s/(s**2 + 9)
RConj == RatData(2, 3, <<>>, <<Pole(1, 1, 2), Pole(2, 1, 1)>>, 0)

\* 1/(s + 1)**2
RDouble == RatData(1, 3, <<>>, <<Pole(3, 2, 3)>>, 0)

\* s
RS == RatData(2, 1, <<1, 0>>, <<>>, 1)

\* s**2
RS2 == RatData(3, 1, <<1, 0, 0>>, <<>>, 2)

\* 1/s
RInv == RatData(1, 2, <<>>, <<Pole(5, 1, 5)>>, -1)

\* (s**2 + 2*s + 2)/(s + 1) = s + 1 + 1/(s + 1)
RImproper == RatData(3, 2, <<1, 1>>, <<Pole(3, 1, 3)>>, 0)

\* (s**2 + 1)/(s**2 + 3*s + 2), overdamped
ROver == [RatData(3, 3, <<1>>, <<Pole(3, 1, 3), Pole(4, 1, 4)>>, 0) EXCEPT !.over = TRUE]

\* a quotient and a remainder with an infinite factor
RInf == [RatData(2, 2, <<1>>, <<>>, 0) EXCEPT !.inf = TRUE]

Rats == {RSimple, RConj, RDouble, RS, RS2, RInv, RImproper, ROver, RInf}

V == Undef(<<"V">>, 1, 0)

Y == Undef(<<"Y">>, 2, 1)

KnownDelays == {[v |-> d, t |-> 0] : d \in (-MaxDelay .. MaxDelay) \ {0}}

\* exp(T*s) and exp(-T*s), T of unknown sign
SymDelays == {[v |-> 0, t |-> 1], [v |-> 0, t |-> -1]}

\* The delay factors in front of an expression: none, exp(c0*s), exp(c0*s + c1)
DelayFactors ==
    {<<>>} \cup {<<ExpS(c0, 0)>> : c0 \in KnownDelays \cup SymDelays}
           \cup {<<ExpS([v |-> -1, t |-> 0], 1)>>}

SingleLeaves ==
    {V, Y, PowS("pos"), PowS("neg"), PowS("unk"), Other(TRUE), Other(FALSE),
     OtherExp(TRUE), Mess(RSimple)}
        \cup {Rat(r) : r \in Rats}

\* Expressions whose delay only simplify exposes; they carry no other delay factor
Hidden == {<<Hid(c0, r)>> : c0 \in KnownDelays \cup SymDelays, r \in {RSimple, RConj}}

Products ==
    {<<Rat(RS), V>>, <<Rat(RS2), V>>, <<Rat(RInv), V>>, <<Rat(RSimple), V>>, <<V, Y>>,
     <<Rat(RS), Rat(RSimple), V>>, <<Rat(RInv), V, Y>>, <<PowS("pos"), V>>, <<PowS("unk"), V>>,
     <<PowS("pos"), Rat(RSimple)>>}

\* The terms of the sums; at most one of two different terms is rational
SumTerms ==
    {Ex(CNum(1), <<>>), Ex(CNum(1), <<V>>), Ex(CNum(1), <<PowS("pos")>>),
     Ex(CNum(1), <<Other(TRUE)>>), Ex(CNum(1), <<Rat(RInv), V>>),
     Ex(CNum(1), <<ExpS([v |-> -1, t |-> 0], 0)>>),
     Ex(CNum(1), <<ExpS([v |-> 1, t |-> 0], 0), Rat(RSimple)>>)}

Sums == {<<SumOf(<<p[1], p[2]>>)>> : p \in {q \in SumTerms \X SumTerms : q[1] # q[2]}}

\* 1 + s, which Ratfun takes as the quotient s + 1
OnePlusS ==
    [SumOf(<<Ex(CNum(1), <<>>), Ex(CNum(1), <<Rat(RS)>>)>>)
        EXCEPT !.r = RatData(2, 1, <<1, 1>>, <<>>, 0)]

\* 1 + exp(-s)
OnePlusExp == SumOf(<<Ex(CNum(1), <<>>), Ex(CNum(1), <<ExpS([v |-> -1, t |-> 0], 0)>>)>>)

\* (t1 + t2) * leaf
SumProducts ==
    {<<sm, f>> : sm \in {OnePlusS, OnePlusExp}, f \in {Rat(RInv), PowS("pos"), V}}
        \cup {<<OnePlusS>>}

Bodies == {<<f>> : f \in SingleLeaves} \cup Products \cup Sums \cup SumProducts

Inputs ==
    {Ex(CNum(c), d \o b) : c \in 1 .. MaxConst, d \in DelayFactors, b \in Bodies}
        \cup {Ex(CNum(c), b) : c \in 1 .. MaxConst, b \in Hidden}

Kwargs == [causal : BOOLEAN, damped_sin : BOOLEAN, gamma : BOOLEAN]

(***************************************************************************)
(* The inverse transform of one term: the state machine.                   *)
(***************************************************************************)
Idle ==
    [ok |-> FALSE, c |-> Zero, u |-> Zero, err |-> "", diag |-> {}, path |-> "idle",
     delay |-> DZero]

RfIdle ==
    /\ poles = <<>> /\ polesdict = <<>> /\ idx = 0 /\ uacc = Zero /\ emitted = <<>>

NmIdle == name = <<>> /\ orig = <<>> /\ trail = <<>>

LinIdle == lin = <<>> /\ linout = <<>>

FIdle == [pos |-> "idle", ok |-> FALSE, c |-> Zero, err |-> "", tried |-> <<>>]

FwdIdle == fexpr = Ex(CNum(1), <<>>) /\ fout = FIdle

NoCall == [op |-> "", arg |-> <<>>, assume |-> [positive |-> "unset", real |-> FALSE],
           override |-> FALSE, force |-> FALSE, deleted |-> {}, err |-> ""]

SymIdle ==
    /\ symbols = <<>> /\ user_symbols = {} /\ domain_symbols = {}
    /\ symcall = NoCall /\ symret = <<>>

DfIdle ==
    /\ filt = [a |-> <<1>>, b |-> <<1>>, x |-> "impulse", ic |-> <<>>, ic_none |-> TRUE,
               ni |-> <<0, 0>>]
    /\ y_tot = <<>>
    /\ fi = [pos |-> "idle", i |-> 0]
    /\ ret_seq = [ok |-> FALSE, vals |-> <<>>, err |-> ""]

\* State(): the global context is context 0 and is current
NewState == [context |-> 0, previous_context |-> <<>>, assumptions |-> <<{}>>]

CtxIdle == state = NewState /\ global_assumptions = {} /\ calls = <<>>

CnIdle == cnodes = <<>> /\ linked = <<>>

NoGraph == [nodes |-> <<>>, fedges |-> <<>>, redges |-> <<>>]

\* a call op at stage, with the nodes of the longest path asked for
Ana(op, stage, from_gnode, to_gnode) ==
    [op |-> op, stage |-> stage, from |-> from_gnode, to |-> to_gnode, at |-> from_gnode,
     err |-> "", printed |-> FALSE]

GrIdle ==
    /\ graph = NoGraph /\ dist = <<>> /\ gpath = <<>> /\ gpos = <<>> /\ unknown = <<>>
    /\ ana = Ana("", "idle", "", "")

LateIdle == CtxIdle /\ CnIdle /\ GrIdle

MoreIdle == FwdIdle /\ SymIdle /\ DfIdle /\ LateIdle

IltIdle == expr = Ex(CNum(1), <<>>) /\ kw = [causal |-> FALSE, damped_sin |-> FALSE, gamma |-> FALSE]
              /\ out = Idle

Init ==
    /\ expr \in Inputs
    /\ kw \in Kwargs
    /\ out = Idle
    /\ RfIdle /\ NmIdle /\ LinIdle /\ MoreIdle

Finals == {"direct", "product", "terms", "retry", "sympy"}

\* the expression left by the delay extraction of lines 338-348
TermBody == ExtractDelay(expr).rest

\* term is at position pos; a step changes only out
At(pos) == out.path = pos /\ UNCHANGED <<expr, kw, rfVars, nmVars, linVars, moreVars>>

\* the outcome r of a call of term1 is kept, and term goes on at got or at missed
Tried(r, got, missed) == out' = Returned(r, IF r.ok THEN got ELSE missed, out.delay)

\* lines 338-348
TermDelay ==
    /\ At("idle")
    /\ out' = [Idle EXCEPT !.path = "try", !.delay = ExtractDelay(expr).delay]

\* lines 350-352
TermTry ==
    /\ At("try")
    /\ Tried(term1(TermBody, kw), "got", "except")

\* lines 382-416, after either successful call of term1: returns, or raises the causality
\* violation
TermFinish ==
    /\ out.path \in {"got", "got2"}
    /\ out' = term_finish(out, out.delay, kw, IF out.path = "got" THEN "direct" ELSE "retry")
    /\ UNCHANGED <<expr, kw, rfVars, nmVars, linVars, moreVars>>

\* the product fallback if its outcome were set aside and the terms came first
Converted_terms_first(p) == out' = [out EXCEPT !.path = "split"]

\* the outcome p of the product fallback: the return of line 361, or on to the terms
Converted(p) ==
    out' = IF p.ok THEN Returned(Ok2(p.c, Zero, p.diag), "product", out.delay)
           ELSE [out EXCEPT !.path = "split"]

\* lines 355-363
TermProduct ==
    /\ At("except")
    /\ Len(ExpandTerms(TermBody)) > 1
    /\ Converted(product(TermBody, kw))

\* lines 365-373: returns the sum of the terms' results, or raises what a term raised
TermExpand ==
    /\ At("split")
    /\ out' = Returned(term_terms(ExpandTerms(TermBody), 1, kw), "terms", out.delay)

\* lines 355-357 and 375
TermSimplify ==
    /\ At("except")
    /\ Len(ExpandTerms(TermBody)) <= 1
    /\ out' = [out EXCEPT !.path = "retrying"]

\* lines 377-379
TermRetry ==
    /\ At("retrying")
    /\ Tried(term1(Simplify(TermBody), kw), "got2", "failed2")

\* line 380: returns SymPy's result, or raises what SymPy raised
TermSympy ==
    /\ At("failed2")
    /\ out' = term_sympy(sympy(Simplify(TermBody)), out.delay)

Next ==
    \/ TermDelay \/ TermTry \/ TermFinish \/ TermProduct \/ TermExpand
    \/ TermSimplify \/ TermRetry \/ TermSympy

Spec == Init /\ [][Next]_vars

(***************************************************************************)
(* The pole loop of ratfun, step by step (lines 132-183).  Pole lists hold *)
(* distinct poles; poles 1 and 2 are conjugates of each other, pole 3 is   *)
(* real and the conjugate of pole 4 is never a pole of the expression.     *)
(***************************************************************************)
PoleIds == {1, 2, 3, 4}

ConjOf(p) == CASE p = 1 -> 2 [] p = 2 -> 1 [] p = 3 -> 3 [] OTHER -> 6

RECURSIVE Perms(_)
Perms(S) ==
    IF S = {} THEN {<<>>}
    ELSE UNION {{<<x>> \o q : q \in Perms(S \ {x})} : x \in S}

PoleLists ==
    UNION {{[i \in DOMAIN q |-> Pole(q[i], ns[i], ConjOf(q[i]))] :
                ns \in [DOMAIN q -> 1 .. MaxMult]} :
           q \in {r \in UNION {Perms(S) : S \in SUBSET PoleIds} : Len(r) <= MaxPoles}}

RfInit ==
    /\ poles \in PoleLists
    /\ polesdict = <<>>
    /\ idx = 0
    /\ uacc = Zero
    /\ emitted = <<>>
    /\ IltIdle /\ NmIdle /\ LinIdle /\ MoreIdle

LoopState == [dict |-> polesdict, u |-> uacc, em |-> emitted]

InLoop == idx \in DOMAIN poles

RfStep(st) ==
    /\ polesdict' = st.dict
    /\ uacc' = st.u
    /\ emitted' = st.em
    /\ idx' = idx + 1
    /\ UNCHANGED <<poles, iltVars, nmVars, linVars, moreVars>>

\* lines 135-137
RfBuildDict ==
    /\ idx = 0
    /\ polesdict' = BuildDict(poles)
    /\ idx' = 1
    /\ UNCHANGED <<poles, uacc, emitted, iltVars, nmVars, linVars, moreVars>>

\* lines 148-149: o == 0
RfSkip ==
    /\ InLoop
    /\ polesdict[poles[idx].p] = 0
    /\ RfStep(PoleStep(LoopState, poles[idx]))

\* lines 155-169: a simple pole whose conjugate is a key of polesdict
RfFold ==
    /\ InLoop
    /\ polesdict[poles[idx].p] = 1
    /\ poles[idx].conj # poles[idx].p /\ poles[idx].conj \in DOMAIN polesdict
    /\ RfStep(PoleStep(LoopState, poles[idx]))

\* lines 170-171: any other simple pole
RfSimple ==
    /\ InLoop
    /\ polesdict[poles[idx].p] = 1
    /\ ~(poles[idx].conj # poles[idx].p /\ poles[idx].conj \in DOMAIN polesdict)
    /\ RfStep(PoleStep(LoopState, poles[idx]))

\* lines 174-183: a repeated pole
RfRepeated ==
    /\ InLoop
    /\ polesdict[poles[idx].p] > 1
    /\ RfStep(PoleStep(LoopState, poles[idx]))

RfNext == RfBuildDict \/ RfSkip \/ RfFold \/ RfSimple \/ RfRepeated

SpecRatfun == RfInit /\ [][RfNext]_vars

(***************************************************************************)
(* The naming rules of the two func methods, applied in turn.              *)
(***************************************************************************)
Names == UNION {[1 .. n -> Chars] : n \in 1 .. MaxNameLen}

NmInit ==
    /\ name \in Names
    /\ orig = name
    /\ trail = <<>>
    /\ IltIdle /\ RfIdle /\ LinIdle /\ MoreIdle

\* LaplaceTransformer.func and derivative_undef: v(t) becomes V(s)
NameForward ==
    /\ Len(trail) < 2
    /\ name' = FwdName(name)
    /\ trail' = Append(trail, "F")
    /\ UNCHANGED <<orig, iltVars, rfVars, linVars, moreVars>>

\* InverseLaplaceTransformer.func: V(s) becomes v(t)
NameInverse ==
    /\ Len(trail) < 2
    /\ name' = InvName(name)
    /\ trail' = Append(trail, "I")
    /\ UNCHANGED <<orig, iltVars, rfVars, linVars, moreVars>>

NmNext == NameForward \/ NameInverse

SpecName == NmInit /\ [][NmNext]_vars

(***************************************************************************)
(* Both dispatchers on k * (a*f + b*g) and on f and g alone.               *)
(***************************************************************************)
v == Undef(<<"v">>, 1, 0)

\* Expressions in t that are not sums
TimeTerms ==
    {<<v>>, <<Undef(<<"x">>, 2, 1)>>, <<Deriv(<<"v">>, 1)>>, <<v, TLeaf("texp", "")>>,
     <<v, TLeaf("texp", "shift")>>, <<TLeaf("texp", ""), TLeaf("sincos", "")>>,
     <<TLeaf("sincos", ""), v>>, <<TLeaf("step0", "")>>, <<TLeaf("dirac", "")>>,
     <<TLeaf("tother", "ok"), TLeaf("step", "")>>, <<TLeaf("tother", "ok")>>,
     <<TLeaf("tother", "")>>, <<[TLeaf("integral", "accum") EXCEPT !.nm = <<"x">>]>>,
     <<TLeaf("integral", "indef")>>, <<v, Deriv(<<"v">>, 1)>>}

\* Expressions in s that are not sums
FreqTerms ==
    {<<V>>, <<Y>>, <<PowS("pos")>>, <<PowS("neg")>>, <<Other(TRUE)>>, <<Other(FALSE)>>,
     <<Rat(RInv), V>>, <<Rat(RS), V>>, <<Rat(RSimple)>>, <<Rat(RDouble)>>, <<Mess(RSimple)>>,
     <<ExpS([v |-> -1, t |-> 0], 0), Rat(RSimple)>>,
     <<ExpS([v |-> 1, t |-> 0], 0), Rat(RSimple)>>,
     <<ExpS([v |-> 0, t |-> -1], 0), Rat(RConj)>>,
     <<Hid([v |-> -2, t |-> 0], RSimple)>>}

IsRational(fs) == \A i \in DOMAIN fs : fs[i].k = "rat"

\* Two different terms; a sum of two rational functions is one rational function, which
\* the inverse dispatcher does not split
TermPairs(S) == {q \in S \X S : q[1] # q[2] /\ ~(IsRational(q[1]) /\ IsRational(q[2]))}

LinInputs ==
    {[dir |-> "forward", k |-> k, a |-> a, b |-> b, f |-> q[1], g |-> q[2], kw |-> kwargs] :
        k \in 1 .. MaxConst, a \in 1 .. MaxConst, b \in 1 .. MaxConst,
        q \in TermPairs(TimeTerms),
        kwargs \in {[causal |-> FALSE, damped_sin |-> FALSE, gamma |-> FALSE]}}
    \cup
    {[dir |-> "inverse", k |-> k, a |-> a, b |-> b, f |-> q[1], g |-> q[2], kw |-> kwargs] :
        k \in 1 .. MaxConst, a \in 1 .. MaxConst, b \in 1 .. MaxConst,
        q \in TermPairs(FreqTerms), kwargs \in Kwargs}

\* k * (a*f + b*g)
Combination(l) ==
    Ex(CNum(l.k), <<SumOf(<<Ex(CNum(l.a), l.f), Ex(CNum(l.b), l.g)>>)>>)

LinInit ==
    /\ lin \in LinInputs
    /\ linout = <<>>
    /\ IltIdle /\ RfIdle /\ NmIdle /\ MoreIdle

\* LaplaceTransformer.term on the combination and on each term
LinForward ==
    /\ linout = <<>>
    /\ lin.dir = "forward"
    /\ linout' = [sum |-> fterm(Combination(lin)),
                  f |-> fterm(Ex(CNum(1), lin.f)),
                  g |-> fterm(Ex(CNum(1), lin.g))]
    /\ UNCHANGED <<lin, iltVars, rfVars, nmVars, moreVars>>

\* InverseLaplaceTransformer.term on the combination and on each term
LinInverse ==
    /\ linout = <<>>
    /\ lin.dir = "inverse"
    /\ linout' = [sum |-> term(Combination(lin), lin.kw),
                  f |-> term(Ex(CNum(1), lin.f), lin.kw),
                  g |-> term(Ex(CNum(1), lin.g), lin.kw)]
    /\ UNCHANGED <<lin, iltVars, rfVars, nmVars, moreVars>>

LinNext == LinForward \/ LinInverse

SpecLin == LinInit /\ [][LinNext]_vars

(***************************************************************************)
(* The forward transform of one term, step by step.                        *)
(***************************************************************************)
\* Factors that contain a Dirac delta, next to the terms of the sums checked
DeltaTerms ==
    {<<TLeaf("dirac", ""), TLeaf("step0", "")>>, <<TLeaf("dirac", ""), TLeaf("tother", "ok")>>,
     <<TLeaf("dirac", ""), TLeaf("tother", "")>>, <<TLeaf("dirac", ""), TLeaf("tother", "crash")>>,
     <<TLeaf("dirac", ""), v>>, <<TLeaf("sincos", ""), TLeaf("dirac", "")>>,
     <<TLeaf("sincos", ""), TLeaf("step", "")>>, <<TLeaf("sincos", ""), TLeaf("tother", "ok")>>,
     <<TLeaf("sincos", ""), TLeaf("tother", "ok"), TLeaf("step0", "")>>,
     <<TLeaf("sincos", ""), TLeaf("sincos", ""), TLeaf("sincos", "")>>,
     <<TLeaf("sincos", ""), Deriv(<<"v">>, 1)>>,
     <<Deriv(<<"v">>, 2)>>, <<DerivOf(<<"v">>, 1, "var")>>, <<DerivOf(<<"Mul">>, 1, "operand")>>,
     <<DerivOf(<<"Mul">>, 1, "neither")>>,
     <<TLeaf("step", "")>>, <<TLeaf("tother", "crash")>>, <<TLeaf("step0", ""), TLeaf("tother", "")>>,
     <<TLeaf("integral", "conv"), TLeaf("dirac", "")>>,
     <<[TLeaf("integral", "accum") EXCEPT !.nm = <<"x">>], TLeaf("sincos", "")>>,
     <<TLeaf("integral", "poslower")>>, <<EConst, v>>}

FwdInputs ==
    LET bodies == TimeTerms \cup DeltaTerms IN
    {Ex(CNum(c), b) : c \in 1 .. MaxConst, b \in bodies}
        \cup {Ex(CNum(1), <<Piecewise(Ex(CNum(c), b), cond)>>) :
                c \in 1 .. MaxConst, b \in {<<v>>, <<TLeaf("dirac", "")>>}, cond \in {"ge0", ""}}
        \cup {Ex(CNum(c), <<SumOf(<<Ex(CNum(1), <<v>>), Ex(CNum(1), b)>>)>>) :
                c \in 1 .. MaxConst, b \in DeltaTerms}

FwdInit ==
    /\ fexpr \in FwdInputs
    /\ fout = FIdle
    /\ IltIdle /\ RfIdle /\ NmIdle /\ LinIdle /\ SymIdle /\ DfIdle /\ LateIdle

\* lines 234-237: the constant and the rest of the expression
FFactored == FactorConst(StripPiecewise(fexpr))

FBody == FFactored.rest

FAt(pos) == fout.pos = pos /\ UNCHANGED <<fexpr, fwdOthers>>

\* term returns or raises the outcome r of the rule, times const
FReturn(r, rule) ==
    fout' = [pos |-> "done", ok |-> r.ok, c |-> Scale(FFactored.const, r.c), err |-> r.err,
             tried |-> Append(fout.tried, rule)]

\* the rule failed and term goes on at pos
FPass(rule, pos) == fout' = [fout EXCEPT !.pos = pos, !.tried = Append(@, rule)]

\* lines 239-244: a sum is transformed term by term
FwdSum ==
    /\ FAt("idle")
    /\ Len(ExpandTerms(FBody)) > 1
    /\ FReturn(fterm_terms(ExpandTerms(FBody), 1), "terms")

\* lines 239-247: not a sum
FwdSingle ==
    /\ FAt("idle")
    /\ Len(ExpandTerms(FBody)) <= 1
    /\ fout' = [fout EXCEPT !.pos = "rules"]

\* lines 249-250
FwdIntegral ==
    /\ FAt("rules")
    /\ HasKind(FBody, {"integral"})
    /\ FReturn(integral(FBody), "integral")

\* the outcome of sin_cos if a failure were raised to the caller
SinCosDone_raised(r) == FReturn(r, "sin_cos")

\* the outcome r of sin_cos: returned, or passed over whatever was raised
SinCosDone(r) == IF r.ok THEN FReturn(r, "sin_cos") ELSE FPass("sin_cos", "past_sin_cos")

\* lines 252-256
FwdSinCos ==
    /\ FAt("rules")
    /\ ~HasKind(FBody, {"integral"})
    /\ HasKind(FBody, {"sincos"})
    /\ SinCosDone(sin_cos(FBody))

\* term is at line 258
PastSinCos ==
    \/ fout.pos = "past_sin_cos"
    \/ fout.pos = "rules" /\ ~HasKind(FBody, {"integral", "sincos"})

\* lines 260-275: the rule taken for an expression with an unknown function
UndefRule(e) ==
    IF HasKind(e, {"deriv"}) THEN "derivative_undef"
    ELSE IF Len(e.fs) = 1 THEN "func"
    ELSE "shift"

\* lines 258-275
FwdUndef ==
    /\ PastSinCos
    /\ HasKind(FBody, {"undef", "deriv"})
    /\ FReturn(fterm_undef(FBody), UndefRule(FBody))
    /\ UNCHANGED <<fexpr, fwdOthers>>

\* lines 277-278
FwdStep0 ==
    /\ PastSinCos
    /\ ~HasKind(FBody, {"undef", "deriv"})
    /\ HasKind(FBody, {"step0"})
    /\ FReturn(do_0(Ex(FBody.const, SelectSeq(FBody.fs, LAMBDA f : f.k # "step0"))), "do_0")
    /\ UNCHANGED <<fexpr, fwdOthers>>

\* the outcome r of do_0minus: returned, passed over if a ValueError, raised otherwise
ZeroMinusDone(r) ==
    IF IsValueError(r) THEN FPass("do_0minus", "past_0minus") ELSE FReturn(r, "do_0minus")

\* lines 280-284
Fwd0minus ==
    /\ PastSinCos
    /\ ~HasKind(FBody, {"undef", "deriv", "step0"})
    /\ HasKind(FBody, {"dirac", "step"})
    /\ ZeroMinusDone(do_0minus(FBody))
    /\ UNCHANGED <<fexpr, fwdOthers>>

\* line 286
FwdDefault ==
    /\ \/ fout.pos = "past_0minus"
       \/ PastSinCos /\ ~HasKind(FBody, {"undef", "deriv", "step0", "dirac", "step"})
    /\ FReturn(do_0(FBody), "do_0")
    /\ UNCHANGED <<fexpr, fwdOthers>>

FwdNext ==
    \/ FwdSum \/ FwdSingle \/ FwdIntegral \/ FwdSinCos \/ FwdUndef \/ FwdStep0
    \/ Fwd0minus \/ FwdDefault

SpecFwd == FwdInit /\ [][FwdNext]_vars

(***************************************************************************)
(* The symbol registry of sym.py.                                          *)
(***************************************************************************)
\* A symbol is its name and its assumptions; SymPy gives the same object for the same
\* name and assumptions.
Symbol(nm, assumptions) == [name |-> nm, positive |-> assumptions.positive, real |-> assumptions.real]

\* global_dict: the names SymPy defines; what they stand for is no Symbol
global_dict == {"pi"}

Builtin(nm) == [name |-> nm, positive |-> "builtin", real |-> FALSE]

\* symbol_dict: Symbol, Function and Integer only
symbol_dict == {}

\* sympify, lines 258-264: positive by default; positive=False is dropped
Assumed(assumptions) ==
    IF assumptions = [positive |-> "unset", real |-> FALSE]
    THEN [assumptions EXCEPT !.positive = "yes"]
    ELSE IF assumptions.positive = "no" THEN [assumptions EXCEPT !.positive = "unset"]
    ELSE assumptions

\* parse_expr with auto_symbol, lines 109-163: a name of local_dict is looked up there,
\* then a name of global_dict; any other name becomes a new Symbol
parse_expr(string, local_dict, gdict, assumptions) ==
    [i \in DOMAIN string |->
        IF string[i] \in DOMAIN local_dict THEN local_dict[string[i]]
        ELSE IF string[i] \in gdict THEN Builtin(string[i])
        ELSE Symbol(string[i], assumptions)]

\* parse, lines 169-177: the new symbols are added, no entry is replaced
parse(string, table, gdict, assumptions) ==
    LET s == parse_expr(string, table, gdict, assumptions)
        new == {s[i].name : i \in {j \in DOMAIN s : s[j].positive # "builtin"}} \ DOMAIN table
    IN [s |-> s,
        symbols |-> [n \in DOMAIN table \cup new |->
                        IF n \in DOMAIN table THEN table[n]
                        ELSE s[CHOOSE i \in DOMAIN s : s[i].name = n]]]

\* sympify1 if it parsed every string with an empty local_dict and stored what it got
sympify1_fresh(arg, table, override, assumptions) ==
    LET p == parse(arg, <<>>, IF override THEN symbol_dict ELSE global_dict, assumptions) IN
    [s |-> p.s, symbols |-> [n \in DOMAIN table \cup DOMAIN p.symbols |->
                                IF n \in DOMAIN p.symbols THEN p.symbols[n] ELSE table[n]]]

\* sympify1 for a string, lines 224-237
sympify1(arg, table, override, assumptions) ==
    IF Len(arg) = 1 /\ arg[1] \in DOMAIN table
    THEN [s |-> <<table[arg[1]]>>, symbols |-> table]
    ELSE parse(arg, table, IF override THEN symbol_dict ELSE global_dict, assumptions)

\* symbol_delete, line 403
symbol_delete(table, nm) == [n \in DOMAIN table \ {nm} |-> table[n]]

SymNames == {"a", "pi"}

\* The strings: a name, or an expression in two names
Strings == {<<n>> : n \in SymNames} \cup {<<"a", "pi">>}

Assumptions == [positive : {"unset", "yes", "no"}, real : BOOLEAN]

SymInit ==
    /\ SymIdle
    /\ IltIdle /\ RfIdle /\ NmIdle /\ LinIdle /\ FwdIdle /\ DfIdle /\ LateIdle

CallOf(op, arg, assumptions, override, deleted, err) ==
    [op |-> op, arg |-> arg, assume |-> assumptions, override |-> override, force |-> FALSE,
     deleted |-> deleted, err |-> err]

Called(op, arg, assumptions, override, deleted, err) ==
    symcall' = CallOf(op, arg, assumptions, override, deleted, err)

\* sympify(expr, override=..., **assumptions), lines 243-268
Sympify ==
    \E arg \in Strings, assumptions \in Assumptions, override \in BOOLEAN :
        LET r == sympify1(arg, symbols, override, Assumed(assumptions)) IN
        /\ symbols' = r.symbols
        /\ symret' = r.s
        /\ Called("sympify", arg, assumptions, override, {}, "")
        /\ UNCHANGED <<user_symbols, domain_symbols, symOthers>>

\* symbol_delete(sym), lines 399-403; pop raises KeyError for a name without entry
SymbolDelete ==
    \E nm \in SymNames :
        /\ symbols' = symbol_delete(symbols, nm)
        /\ symret' = <<>>
        /\ Called("symbol_delete", <<nm>>, NoCall.assume, FALSE,
                  IF nm \in DOMAIN symbols THEN {nm} ELSE {},
                  IF nm \in DOMAIN symbols THEN "" ELSE "KeyError")
        /\ UNCHANGED <<user_symbols, domain_symbols, symOthers>>

\* symsymbol1(name, override, force, **assumptions), lines 271-283.  The tables are read
\* from state.context, which is the global context here.
symsymbol1(nm, override, force, assumptions) ==
    LET guarded == override /\ nm \in domain_symbols
        known == override /\ nm \in domain_symbols \cup user_symbols
        r == sympify1(<<nm>>, IF known THEN symbol_delete(symbols, nm) ELSE symbols,
                      override, Assumed(assumptions))
    IN IF guarded /\ ~force
       THEN [symbols |-> symbols, s |-> <<>>, deleted |-> {}, err |-> "ValueError"]
       ELSE IF known /\ nm \notin DOMAIN symbols
       THEN [symbols |-> symbols, s |-> <<>>, deleted |-> {}, err |-> "KeyError"]
       ELSE [symbols |-> r.symbols, s |-> r.s, deleted |-> IF known THEN {nm} ELSE {},
             err |-> ""]

\* symsymbol(name, force, **assumptions), lines 285-298: line 296 calls symsymbol1 with
\* the name and the assumptions only, so that force keeps its default
Symsymbol ==
    \E nm \in SymNames, assumptions \in Assumptions, force \in BOOLEAN :
        LET r == symsymbol1(nm, TRUE, FALSE, assumptions) IN
        /\ symbols' = r.symbols
        /\ symret' = r.s
        /\ user_symbols' = IF r.err = "" THEN user_symbols \cup {nm} ELSE user_symbols
        /\ symcall' = [CallOf("symsymbol", <<nm>>, assumptions, TRUE, r.deleted, r.err)
                          EXCEPT !.force = force]
        /\ UNCHANGED <<domain_symbols, symOthers>>

\* domainsymbol(name, **assumptions), lines 301-307
Domainsymbol ==
    \E nm \in SymNames, assumptions \in {NoCall.assume} :
        LET r == symsymbol1(nm, TRUE, FALSE, assumptions) IN
        /\ symbols' = r.symbols
        /\ symret' = r.s
        /\ domain_symbols' = IF r.err = "" THEN domain_symbols \cup {nm} ELSE domain_symbols
        /\ Called("domainsymbol", <<nm>>, assumptions, TRUE, r.deleted, r.err)
        /\ UNCHANGED <<user_symbols, symOthers>>

SymNext == Sympify \/ SymbolDelete \/ Symsymbol \/ Domainsymbol

SpecSym == SymInit /\ [][SymNext]_vars

(***************************************************************************)
(* DLTIFilter.response, the symbolic path.                                 *)
(***************************************************************************)
MaxLenNi == 3

\* The values are exact rational numbers n / d with d > 0, in lowest terms.
RECURSIVE Gcd(_, _)
Gcd(m, n) == IF n = 0 THEN m ELSE Gcd(n, m % n)

Q(n, d) ==
    LET sg == IF d < 0 THEN -1 ELSE 1
        g == Gcd(IF n < 0 THEN -n ELSE n, sg * d)
    IN [n |-> (sg * n) \div g, d |-> (sg * d) \div g]

QAdd(p, q) == Q(p.n * q.d + q.n * p.d, p.d * q.d)

QMul(p, q) == Q(p.n * q.n, p.d * q.d)

QDiv(p, q) == Q(p.n * q.d, p.d * q.n)

\* x[m] or x(m): a unit impulse or a ramp that starts at 0
XAt(x, m) == IF x = "impulse" THEN (IF m = 0 THEN 1 ELSE 0) ELSE (IF m >= 0 THEN m + 1 ELSE 0)

\* sum(self.b[l] * x[nval - l] for l in range(Nr))
RECURSIVE Rhs(_, _, _, _)
Rhs(b, x, nval, l) ==
    IF l >= Len(b) THEN Q(0, 1)
    ELSE QAdd(Q(b[l + 1] * XAt(x, nval - l), 1), Rhs(b, x, nval, l + 1))

\* sum(csi * ysi for csi, ysi in zip(a_r, pre_y))
RECURSIVE SumZip(_, _)
SumZip(cs, ys) ==
    IF cs = <<>> \/ ys = <<>> THEN Q(0, 1)
    ELSE QAdd(QMul(Q(Head(cs), 1), Head(ys)), SumZip(Tail(cs), Tail(ys)))

\* a sequence backwards, as the slices [-1::-1] do
Backwards(sq) == [j \in 1 .. Len(sq) |-> sq[Len(sq) + 1 - j]]

\* the coefficients a[1], ..., a[NO] in this order
a_r_forward(a, NO) == SubSeq(a, 2, NO + 1)

\* self.a[-1:-1-NO:-1]: the last NO coefficients, the last one first
a_r(a, NO) == SubSeq(Backwards(a), 1, NO)

\* ic is None: [0] * (len(self.a) - 1)
IcOf(f) == IF f.ic_none THEN [j \in 1 .. Len(f.a) - 1 |-> 0] ELSE f.ic

\* arange(ni[0], ni[1] + 1)
NiOf(f) == [j \in 1 .. (IF f.ni[2] >= f.ni[1] THEN f.ni[2] - f.ni[1] + 1 ELSE 0) |-> f.ni[1] + j - 1]

Coefs(lens, heads) ==
    UNION {{<<h>> \o t : h \in heads, t \in [1 .. k - 1 -> {-1, 2}]} : k \in lens}

Filters ==
    {f \in [a : Coefs(1 .. 3, {1, 2}), b : Coefs(1 .. 2, {1}), x : {"impulse", "ramp"},
            ic : UNION {[1 .. k -> {1, 3}] : k \in 0 .. 2}, ic_none : BOOLEAN,
            ni : {<<first, first + len - 1>> : first \in {-1, 0}, len \in 0 .. MaxLenNi}] :
        f.ic_none => f.ic = <<>>}

DfInit ==
    /\ filt \in Filters
    /\ y_tot = <<>>
    /\ fi = [pos |-> "idle", i |-> 0]
    /\ ret_seq = [ok |-> FALSE, vals |-> <<>>, err |-> ""]
    /\ IltIdle /\ RfIdle /\ NmIdle /\ LinIdle /\ FwdIdle /\ SymIdle /\ LateIdle

\* lines 138-168: the arguments are checked and y_tot is laid out
ResponseStart ==
    /\ fi.pos = "idle"
    /\ IF Len(IcOf(filt)) # Len(filt.a) - 1
       THEN /\ ret_seq' = [ok |-> FALSE, vals |-> <<>>, err |-> "Expected initial conditions"]
            /\ fi' = [pos |-> "done", i |-> 0]
            /\ y_tot' = y_tot
       ELSE /\ y_tot' = [j \in DOMAIN IcOf(filt) |-> Q(Backwards(IcOf(filt))[j], 1)]
                            \o [j \in DOMAIN NiOf(filt) |-> Q(0, 1)]
            /\ fi' = [pos |-> "loop", i |-> 0]
            /\ ret_seq' = ret_seq
    /\ UNCHANGED <<filt, dfOthers>>

\* lines 170-182: one pass of the loop over ni
ResponseStep ==
    /\ fi.pos = "loop"
    /\ fi.i < Len(NiOf(filt))
    /\ LET NO == Len(IcOf(filt))
           nval == NiOf(filt)[fi.i + 1]
           pre_y == SubSeq(y_tot, fi.i + 1, fi.i + NO)
           rhs == Rhs(filt.b, filt.x, nval, 0)
           a0 == Q(filt.a[1], 1)
       IN y_tot' = [y_tot EXCEPT ![fi.i + NO + 1] =
                       QAdd(QMul(QDiv(Q(-1, 1), a0), SumZip(a_r(filt.a, NO), pre_y)),
                            QDiv(rhs, a0))]
    /\ fi' = [fi EXCEPT !.i = @ + 1]
    /\ UNCHANGED <<filt, ret_seq, dfOthers>>

\* lines 184-187: the solution, without the initial values
ResponseReturn ==
    /\ fi.pos = "loop"
    /\ fi.i = Len(NiOf(filt))
    /\ ret_seq' = [ok |-> TRUE, vals |-> SubSeq(y_tot, Len(IcOf(filt)) + 1, Len(y_tot)), err |-> ""]
    /\ fi' = [fi EXCEPT !.pos = "done"]
    /\ UNCHANGED <<filt, y_tot, dfOthers>>

DfNext == ResponseStart \/ ResponseStep \/ ResponseReturn

SpecFilter == DfInit /\ [][DfNext]_vars

(***************************************************************************)
(* State (state.py): the stack of contexts.  A context is a number, 0 the  *)
(* global context; state.assumptions[c + 1] is the set of assumptions that *)
(* context c holds.  global_assumptions is SymPy's set of assumptions,     *)
(* which the program using the transforms adds to and removes from.        *)
(***************************************************************************)
MaxContexts == 2    \* contexts made by new_context

MaxCalls == 4       \* calls of switch_context and restore_context

Facts == {"p", "q"}

Contexts == 0 .. Len(state.assumptions) - 1

\* lines 44-48
new_context(st) == [st EXCEPT !.assumptions = Append(@, {})]

\* lines 52-53
switch_context(st, context) ==
    [st EXCEPT !.previous_context = Append(@, st.context), !.context = context]

\* lines 60-62 if the assumptions were not saved into the context that is left
restore_context_nosave(st, g) ==
    [st EXCEPT !.context = st.previous_context[Len(st.previous_context)],
               !.previous_context = SubSeq(@, 1, Len(@) - 1)]

\* lines 60-62; g is global_assumptions
restore_context(st, g) ==
    [st EXCEPT !.assumptions[st.context + 1] = @ \cup g,
               !.context = st.previous_context[Len(st.previous_context)],
               !.previous_context = SubSeq(@, 1, Len(@) - 1)]

\* lines 55-56 and 64-65: global_assumptions.clear(), then update from the context
Reloaded(st) == st.assumptions[st.context + 1]

Call(op, from, to) == [op |-> op, from |-> from, to |-> to]

EarlyIdle == IltIdle /\ RfIdle /\ NmIdle /\ LinIdle /\ FwdIdle /\ SymIdle /\ DfIdle

CtxInit == CtxIdle /\ EarlyIdle /\ CnIdle /\ GrIdle

NewContext ==
    /\ Len(state.assumptions) <= MaxContexts
    /\ state' = new_context(state)
    /\ UNCHANGED <<global_assumptions, calls, ctxOthers>>

\* global_assumptions.add(f)
Assume(f) ==
    /\ f \notin global_assumptions
    /\ global_assumptions' = global_assumptions \cup {f}
    /\ UNCHANGED <<state, calls, ctxOthers>>

\* global_assumptions.remove(f)
Retract(f) ==
    /\ f \in global_assumptions
    /\ global_assumptions' = global_assumptions \ {f}
    /\ UNCHANGED <<state, calls, ctxOthers>>

\* lines 50-56
SwitchContext(context) ==
    /\ Len(calls) < MaxCalls
    /\ state' = switch_context(state, context)
    /\ global_assumptions' = Reloaded(state')
    /\ calls' = Append(calls, Call("switch", state.context, context))
    /\ UNCHANGED ctxOthers

\* lines 58-65
RestoreContext ==
    /\ Len(calls) < MaxCalls
    /\ state.previous_context # <<>>
    /\ state' = restore_context(state, global_assumptions)
    /\ global_assumptions' = Reloaded(state')
    /\ calls' = Append(calls, Call("restore", state.context, state'.context))
    /\ UNCHANGED ctxOthers

\* lines 60-62 with no context to go back to: the assumptions are saved, then pop raises
RestoreRaises ==
    /\ Len(calls) < MaxCalls
    /\ state.previous_context = <<>>
    /\ state' = [state EXCEPT !.assumptions[state.context + 1] = @ \cup global_assumptions]
    /\ calls' = Append(calls, Call("IndexError", state.context, state.context))
    /\ UNCHANGED <<global_assumptions, ctxOthers>>

CtxNext ==
    \/ NewContext
    \/ \E f \in Facts : Assume(f)
    \/ \E f \in Facts : Retract(f)
    \/ \E context \in Contexts : SwitchContext(context)
    \/ RestoreContext
    \/ RestoreRaises

SpecContext == CtxInit /\ [][CtxNext]_vars

(***************************************************************************)
(* Cnodes (schemgraph.py): the nodes that share a common node.  cnodes[n]  *)
(* is the tuple self[n].                                                   *)
(***************************************************************************)
MaxNodes == 4   \* nodes of a Cnodes dictionary

CNodes == 1 .. MaxNodes

\* unique if it kept every element
unique_all(alist) == alist

\* lines 10-15: the elements of alist in the order of their first occurrence
RECURSIVE unique(_)
unique(alist) ==
    IF alist = <<>> THEN <<>>
    ELSE LET front == unique(SubSeq(alist, 1, Len(alist) - 1))
             x == alist[Len(alist)]
         IN IF \E i \in DOMAIN front : front[i] = x THEN front ELSE Append(front, x)

Members(tuple) == {tuple[i] : i \in DOMAIN tuple}

\* lines 28-39: both loops run over the tuples read when the loop starts
link(cn, n1, n2) ==
    LET newset == unique(cn[n1] \o cn[n2])
        first == [n \in DOMAIN cn |-> IF n \in Members(cn[n1]) THEN newset ELSE cn[n]]
    IN [n \in DOMAIN cn |-> IF n \in Members(first[n2]) THEN newset ELSE first[n]]

\* lines 21-26: Cnodes(nodes)
CnInit ==
    /\ cnodes = [n \in CNodes |-> <<n>>]
    /\ linked = <<>>
    /\ EarlyIdle /\ CtxIdle /\ GrIdle

Link(n1, n2) ==
    /\ cnodes' = link(cnodes, n1, n2)
    /\ linked' = <<n1, n2>>
    /\ UNCHANGED cnOthers

CnNext == \E n1 \in CNodes, n2 \in CNodes : Link(n1, n2)

SpecCnodes == CnInit /\ [][CnNext]_vars

(***************************************************************************)
(* Graph (schemgraph.py).  A node is named by a string; every node is its  *)
(* own common node.  graph.nodes is the order of the dictionary, and       *)
(* graph.fedges[n], graph.redges[n] are the edge lists of Gnode n.         *)
(***************************************************************************)
MaxSize == 3    \* size of a component

\* lines 42-52
Gedge(cpt, from_gnode, to_gnode, size, stretch) ==
    [cpt |-> cpt, from |-> from_gnode, to |-> to_gnode, size |-> size, stretch |-> stretch]

Put(f, k, val) == [x \in DOMAIN f \cup {k} |-> IF x = k THEN val ELSE f[x]]

\* lines 243-247
add_node(g, n) ==
    IF n \in Members(g.nodes) THEN g
    ELSE [nodes |-> Append(g.nodes, n), fedges |-> Put(g.fedges, n, <<>>),
          redges |-> Put(g.redges, n, <<>>)]

\* lines 78-96: add_fedge and add_redge
add_edge(edges, edge) ==
    IF \E i \in DOMAIN edges : /\ edges[i].cpt = edge.cpt /\ edges[i].to = edge.to
                               /\ edges[i].from = edge.from
    THEN edges ELSE Append(edges, edge)

\* lines 249-252
add_edges(g, cpt, gnode1, gnode2, size, stretch) ==
    LET g1 == [g EXCEPT !.fedges[gnode1] = add_edge(@, Gedge(cpt, gnode1, gnode2, size, stretch))]
    IN [g1 EXCEPT !.redges[gnode2] = add_edge(@, Gedge(cpt, gnode2, gnode1, size, stretch))]

\* lines 223-241
add(g, cpt, n1, n2, size, stretch) ==
    IF size = 0 THEN g
    ELSE LET m1 == IF size < 0 THEN n2 ELSE n1
             m2 == IF size < 0 THEN n1 ELSE n2
         IN add_edges(add_node(add_node(g, m1), m2), cpt, m1, m2,
                      IF size < 0 THEN -size ELSE size, stretch)

(***************************************************************************)
(* Graph.longest_path, forward.  traverse sets the dist of every node it   *)
(* visits; makepath then follows, from every node, the edge to the node of *)
(* the largest dist.                                                       *)
(***************************************************************************)
RECURSIVE traverse(_, _, _, _), traverse_edges(_, _, _, _, _)

\* line 587: return gnode.dist
Visited(d, gnode) == [d |-> d, v |-> d[gnode]]

\* lines 583-585: r is what traverse returned for the node behind an edge of that size
Longer(r, gnode, size) ==
    IF r.v >= 0 /\ r.d[gnode] < r.v + size THEN Put(r.d, gnode, r.v + size) ELSE r.d

\* lines 567-587; returns the dist map and the value returned
traverse(g, d, gnode, to_gnode) ==
    IF gnode = to_gnode THEN [d |-> Put(d, gnode, 0), v |-> 0]
    ELSE IF gnode \in DOMAIN d THEN [d |-> d, v |-> d[gnode]]
    ELSE Visited(traverse_edges(g, Put(d, gnode, -1), gnode, to_gnode, 1), gnode)

\* lines 579-585: the loop over the edges, from edge i on
traverse_edges(g, d, gnode, to_gnode, i) ==
    IF i > Len(g.fedges[gnode]) THEN d
    ELSE IF g.fedges[gnode][i].to = gnode THEN traverse_edges(g, d, gnode, to_gnode, i + 1)
    ELSE traverse_edges(g, Longer(traverse(g, d, g.fedges[gnode][i].to, to_gnode), gnode,
                                  g.fedges[gnode][i].size),
                        gnode, to_gnode, i + 1)

\* line 560: to_gnode.dist, what makepath compares
Reach(d, edge) == d[edge.to]

\* lines 552-562: the loop of makepath from edge i on; best is <<>> or <<best_edge>>.
\* The comparison of line 560 with a dist of None raises TypeError.
RECURSIVE best_edge(_, _, _, _, _, _)
best_edge(g, d, gnode, i, dist_max, best) ==
    IF i > Len(g.fedges[gnode]) THEN [best |-> best, err |-> ""]
    ELSE LET edge == g.fedges[gnode][i] IN
         IF edge.to = gnode THEN best_edge(g, d, gnode, i + 1, dist_max, best)
         ELSE IF edge.to \notin DOMAIN d THEN [best |-> <<>>, err |-> "TypeError"]
         ELSE IF Reach(d, edge) > dist_max
         THEN best_edge(g, d, gnode, i + 1, Reach(d, edge), <<edge>>)
         ELSE best_edge(g, d, gnode, i + 1, dist_max, best)

\* GraphPath.dist, lines 114-119
RECURSIVE PathDist(_)
PathDist(p) == IF p = <<>> THEN 0 ELSE p[1].size + PathDist(SubSeq(p, 2, Len(p)))

\* The directed acyclic graphs longest_path is applied to: components between the nodes
\* a, b, c, d, each from a node to a later one, added in the order of the list
PathNodes == <<"a", "b", "c", "d">>

PathPairs == <<<<1, 2>>, <<1, 3>>, <<1, 4>>, <<2, 3>>, <<2, 4>>, <<3, 4>>>>

\* sizes[k] is the size of the component between pair k, 0 for no component
RECURSIVE Built(_, _, _, _, _)
Built(nodes, pairs, sizes, stretches, k) ==
    IF k = 0 THEN NoGraph
    ELSE add(Built(nodes, pairs, sizes, stretches, k - 1), k, nodes[pairs[k][1]],
             nodes[pairs[k][2]], sizes[k], stretches[k])

PathGraphs ==
    {Built(PathNodes, PathPairs, sizes, [k \in DOMAIN PathPairs |-> FALSE], Len(PathPairs)) :
        sizes \in [DOMAIN PathPairs -> 0 .. MaxSize]}

LpInit ==
    /\ graph \in PathGraphs
    /\ \E to_gnode \in {"c", "d"} :
          ana = Ana("longest_path", "longest_path", "a", to_gnode)
    /\ {"a", ana.to} \subseteq Members(graph.nodes)
    /\ dist = <<>> /\ gpath = <<>> /\ gpos = <<>> /\ unknown = <<>>
    /\ EarlyIdle /\ CtxIdle /\ CnIdle

\* lines 543-544 and 590: every dist is None, then traverse(from_gnode, to_gnode)
LpTraverse ==
    /\ ana.stage = "longest_path"
    /\ dist' = traverse(graph, <<>>, ana.from, ana.to).d
    /\ gpath' = <<>>
    /\ ana' = [ana EXCEPT !.stage = "makepath", !.at = ana.from]
    /\ UNCHANGED <<graph, gpos, unknown, grOthers>>

\* the stage after longest_path has returned
AfterPath == IF ana.op = "analyse" THEN "assign_longest" ELSE "done"

\* lines 563-565: b is the best edge found; makepath goes on behind it, or ends
Made(b) ==
    IF b.err # "" THEN /\ ana' = [ana EXCEPT !.stage = "done", !.err = b.err]
                       /\ gpath' = gpath
    ELSE IF b.best = <<>> THEN /\ ana' = [ana EXCEPT !.stage = AfterPath]
                               /\ gpath' = gpath
    ELSE /\ gpath' = Append(gpath, b.best[1])
         /\ ana' = [ana EXCEPT !.at = b.best[1].to]

\* lines 547-565: one call of makepath
LpMakepath ==
    /\ ana.stage = "makepath"
    /\ Made(best_edge(graph, dist, ana.at, 1, -1, <<>>))
    /\ UNCHANGED <<graph, dist, gpos, unknown, grOthers>>

LpNext == LpTraverse \/ LpMakepath

SpecPath == LpInit /\ [][LpNext]_vars

(***************************************************************************)
(* Graph.analyse.  Positions are exact rational numbers; the sizes are     *)
(* integers, so that a difference the code compares with 1e-6 is either 0  *)
(* or far larger.                                                          *)
(***************************************************************************)
QSub(p, q) == QAdd(p, QMul(Q(-1, 1), q))

QLess(p, q) == p.n * q.d < q.n * p.d

\* GraphPath.stretches, lines 122-128
RECURSIVE Stretches(_)
Stretches(p) ==
    IF p = <<>> THEN 0
    ELSE (IF p[1].stretch THEN 1 ELSE 0) + Stretches(SubSeq(p, 2, Len(p)))

\* lines 271-275 for the nodes from position i of the dictionary on; the dictionary then
\* holds start and end, which are looked at as every other node
RECURSIVE add_start_edges(_, _)
add_start_edges(g, i) ==
    IF i > Len(g.nodes) THEN g
    ELSE LET gnode == g.nodes[i]
             g1 == IF g.redges[gnode] = <<>>
                   THEN add_edges(g, 0, "start", gnode, 0, TRUE) ELSE g
             g2 == IF g1.fedges[gnode] = <<>>
                   THEN add_edges(g1, 0, gnode, "end", 0, TRUE) ELSE g1
         IN add_start_edges(g2, i + 1)

\* lines 262-275
add_start_nodes(g) ==
    IF "start" \in Members(g.nodes) THEN g
    ELSE add_start_edges(add_node(add_node(g, "start"), "end"), 1)

\* lines 393-402, from edge i of the path on; unknown.remove raises ValueError for a
\* name that is not in the list
Without(list, n) == SelectSeq(list, LAMBDA x : x # n)

RECURSIVE assign_longest(_, _, _, _, _)
assign_longest(p, i, d, ps, unk) ==
    IF i > Len(p)
    THEN IF p = <<>> THEN [pos |-> ps, unknown |-> unk, err |-> "UnboundLocalError"]
         ELSE IF p[Len(p)].to \notin Members(unk)
         THEN [pos |-> Put(ps, p[Len(p)].to, Q(d, 1)), unknown |-> unk, err |-> "ValueError"]
         ELSE [pos |-> Put(ps, p[Len(p)].to, Q(d, 1)), unknown |-> Without(unk, p[Len(p)].to),
               err |-> ""]
    ELSE IF p[i].from \notin Members(unk)
    THEN [pos |-> Put(ps, p[i].from, Q(d, 1)), unknown |-> unk, err |-> "ValueError"]
    ELSE assign_longest(p, i + 1, d + p[i].size, Put(ps, p[i].from, Q(d, 1)),
                        Without(unk, p[i].from))

\* lines 277-289: the position from the first fixed edge to a node of known position, or
\* <<>>; an edge of redges leads to the node before
FixedBy(edges, ps, excluded, sign) ==
    LET fits == {i \in DOMAIN edges : /\ ~edges[i].stretch /\ edges[i].to \in DOMAIN ps
                                      /\ edges[i].to # excluded}
    IN IF fits = {} THEN <<>>
       ELSE LET i == CHOOSE k \in fits : \A j \in fits : k <= j IN
            <<QAdd(ps[edges[i].to], Q(sign * edges[i].size, 1))>>

FirstOf(x, y) == IF x # <<>> THEN x ELSE y

assign_fixed1(g, ps, gnode) ==
    FirstOf(FixedBy(g.fedges[gnode], ps, "end", -1), FixedBy(g.redges[gnode], ps, "start", 1))

\* lines 291-303: the for loop from position i of unknown on; the first node that
\* assign_fixed1 places is removed and the list is gone through again
RECURSIVE assign_fixed_loop(_, _, _, _), assign_fixed_break(_, _, _, _, _)
assign_fixed_loop(g, ps, unk, i) ==
    IF i > Len(unk) THEN [pos |-> ps, unknown |-> unk, err |-> ""]
    ELSE assign_fixed_break(g, ps, unk, i, assign_fixed1(g, ps, unk[i]))

\* lines 300-303: x is what assign_fixed1 found for unknown[i]
assign_fixed_break(g, ps, unk, i, x) ==
    IF x = <<>> THEN assign_fixed_loop(g, ps, unk, i + 1)
    ELSE assign_fixed_loop(g, Put(ps, unk[i], x[1]), Without(unk, unk[i]), 1)

assign_fixed(g, ps, unk) == assign_fixed_loop(g, ps, unk, 1)

\* lines 501-535: longest_path_to_known; d is the dist of every node, p the path
RECURSIVE to_known(_, _, _, _, _, _), to_known_edges(_, _, _, _, _, _, _)
RECURSIVE to_known_back(_, _, _, _, _, _)
to_known(g, ps, d, p, gnode, forward) ==
    IF gnode \in DOMAIN ps THEN [found |-> TRUE, d |-> d, p |-> p]
    ELSE to_known_edges(g, ps, d, p, gnode, forward, 1)

to_known_edges(g, ps, d, p, gnode, forward, i) ==
    LET edges == IF forward THEN g.fedges[gnode] ELSE g.redges[gnode] IN
    IF i > Len(edges) THEN [found |-> FALSE, d |-> d, p |-> p]
    ELSE IF d[gnode] + edges[i].size > d[edges[i].to]
    THEN to_known_back(g, ps, gnode, forward, i,
                       to_known(g, ps, Put(d, edges[i].to, d[gnode] + edges[i].size),
                                Append(p, edges[i]), edges[i].to, forward))
    ELSE to_known_edges(g, ps, d, p, gnode, forward, i + 1)

\* lines 522-523: r is what traverse returned for the node behind edge i
to_known_back(g, ps, gnode, forward, i, r) ==
    IF r.found THEN r ELSE to_known_edges(g, ps, r.d, r.p, gnode, forward, i + 1)

longest_path_to_known(g, ps, from_gnode, forward) ==
    to_known(g, ps, [n \in Members(g.nodes) |-> IF n = from_gnode THEN 0 ELSE -1], <<>>,
             from_gnode, forward)

\* lines 327-371: the position of gnode between the nodes the two paths end at
assign_stretch_place(ps, gnode, d, to_gnode, from_gnode, to_dist, from_dist, to_stretches, from_stretches) ==
    LET separation == QSub(ps[to_gnode], ps[from_gnode])
        extent == to_dist + from_dist
        stretch == QDiv(QSub(separation, Q(extent, 1)), Q(to_stretches + from_stretches, 1))
        placed(x) == [changed |-> TRUE, pos |-> Put(ps, gnode, x), d |-> d, err |-> ""]
    IN IF from_gnode = "start" /\ to_gnode = "end"
       THEN [changed |-> FALSE, pos |-> ps, d |-> d, err |-> ""]
       ELSE IF from_gnode = "start" THEN placed(QSub(ps[to_gnode], Q(to_dist, 1)))
       ELSE IF to_gnode = "end" THEN placed(QAdd(ps[from_gnode], Q(from_dist, 1)))
       ELSE IF QLess(separation, Q(extent, 1))
       THEN [changed |-> FALSE, pos |-> ps, d |-> d, err |-> "ValueError"]
       ELSE IF from_stretches = 0 THEN placed(QAdd(ps[from_gnode], Q(from_dist, 1)))
       ELSE IF to_stretches = 0 THEN placed(QSub(ps[to_gnode], Q(to_dist, 1)))
       ELSE placed(QAdd(QAdd(ps[from_gnode], Q(from_dist, 1)),
                        QMul(stretch, Q(from_stretches, 1))))

\* lines 323-325: the ends of the two paths; [-1] of an empty path raises IndexError
assign_stretch_ends(ps, gnode, to_path, from_path, d) ==
    IF to_path = <<>> \/ from_path = <<>>
    THEN [changed |-> FALSE, pos |-> ps, d |-> d, err |-> "IndexError"]
    ELSE assign_stretch_place(ps, gnode, d, to_path[Len(to_path)].to,
                              from_path[Len(from_path)].to, PathDist(to_path),
                              PathDist(from_path), Stretches(to_path), Stretches(from_path))

\* lines 320-321: from_path is the last path looked for, its dist values stay
assign_stretch_paths(ps, gnode, to_path, fp) ==
    assign_stretch_ends(ps, gnode, to_path, fp.p, fp.d)

\* lines 305-371; changed is the value returned
assign_stretch1(g, ps, gnode) ==
    assign_stretch_paths(ps, gnode, longest_path_to_known(g, ps, gnode, TRUE).p,
                         longest_path_to_known(g, ps, gnode, FALSE))

\* lines 373-391: the for loop from position i of unknown on; a break starts the list
\* again, and the while loop ends when the for loop has gone through the whole list
RECURSIVE assign_stretch(_, _, _, _, _), assign_stretch_break(_, _, _, _, _)
RECURSIVE assign_stretch_again(_, _, _)
assign_stretch(g, ps, unk, d, i) ==
    IF i > Len(unk) THEN [pos |-> ps, unknown |-> unk, d |-> d, err |-> ""]
    ELSE IF unk[i] \in DOMAIN ps THEN assign_stretch(g, ps, Without(unk, unk[i]), d, 1)
    ELSE assign_stretch_break(g, ps, unk, i, assign_stretch1(g, ps, unk[i]))

\* lines 387-391: r is what assign_stretch1 returned or raised for unknown[i]
assign_stretch_break(g, ps, unk, i, r) ==
    IF r.err # "" THEN [pos |-> ps, unknown |-> unk, d |-> r.d, err |-> r.err]
    ELSE IF r.changed
    THEN assign_stretch_again(g, assign_fixed(g, r.pos, Without(unk, unk[i])), r.d)
    ELSE assign_stretch(g, ps, unk, r.d, i + 1)

\* line 390: f is what assign_fixed left
assign_stretch_again(g, f, d) == assign_stretch(g, f.pos, f.unknown, d, 1)

\* lines 602-620: a conflict is printed, nothing is raised
check_positions(g, ps) ==
    \E gnode \in Members(g.nodes) : \E i \in DOMAIN g.fedges[gnode] :
        LET edge == g.fedges[gnode][i]
            d == QSub(ps[edge.to], ps[gnode])
        IN IF edge.stretch THEN QLess(d, Q(edge.size, 1)) ELSE d # Q(edge.size, 1)

\* The schematics analysed: four nodes, and between five pairs of them no component, or
\* a component of size 1 or MaxSize that may stretch or not
AnNodes == <<"a", "b", "c", "d">>

AnPairs == <<<<1, 2>>, <<1, 3>>, <<2, 4>>, <<3, 4>>, <<1, 4>>>>

AnGraphs ==
    {Built(AnNodes, AnPairs, sizes, stretches, Len(AnPairs)) :
        sizes \in [DOMAIN AnPairs -> {0, 1, MaxSize}],
        stretches \in [DOMAIN AnPairs -> BOOLEAN]}

AnInit ==
    /\ graph \in AnGraphs
    /\ ana = Ana("analyse", "start", "start", "end")
    /\ dist = <<>> /\ gpath = <<>> /\ gpos = <<>> /\ unknown = <<>>
    /\ EarlyIdle /\ CtxIdle /\ CnIdle

\* lines 406-420: without constraints every node is at 0; otherwise start and end are
\* added and every position is cleared
AnStart ==
    /\ ana.op = "analyse" /\ ana.stage = "start"
    /\ IF graph.nodes = <<>>
       THEN /\ gpos' = [n \in Members(AnNodes) |-> Q(0, 1)]
            /\ ana' = [ana EXCEPT !.stage = "done"]
            /\ UNCHANGED <<graph, unknown>>
       ELSE /\ graph' = add_start_nodes(graph)
            /\ unknown' = graph.nodes \o <<"start", "end">>
            /\ gpos' = <<>>
            /\ ana' = [ana EXCEPT !.stage = "longest_path"]
    /\ UNCHANGED <<dist, gpath, grOthers>>

\* r is the outcome of a stage that assigns positions: analyse goes on at next, or ends
\* with the exception raised
Assigned(r, next) ==
    /\ gpos' = r.pos
    /\ unknown' = r.unknown
    /\ ana' = [ana EXCEPT !.stage = IF r.err = "" THEN next ELSE "done", !.err = r.err]

\* lines 439-441: a node left in unknown is a ValueError
Stretched(r) ==
    /\ Assigned([pos |-> r.pos, unknown |-> r.unknown,
                 err |-> IF r.err = "" /\ r.unknown # <<>> THEN "ValueError" ELSE r.err],
                "check")
    /\ dist' = r.d

\* line 426
AssignLongest ==
    /\ ana.stage = "assign_longest"
    /\ Assigned(assign_longest(gpath, 1, 0, gpos, unknown), "assign_fixed")
    /\ dist' = dist
    /\ UNCHANGED <<graph, gpath, grOthers>>

\* line 432
AssignFixed ==
    /\ ana.stage = "assign_fixed"
    /\ Assigned(assign_fixed(graph, gpos, unknown), "assign_stretch")
    /\ dist' = dist
    /\ UNCHANGED <<graph, gpath, grOthers>>

\* line 437
AssignStretch ==
    /\ ana.stage = "assign_stretch"
    /\ Stretched(assign_stretch(graph, gpos, unknown, dist, 1))
    /\ UNCHANGED <<graph, gpath, grOthers>>

\* lines 443-459: the positions are checked and returned; a node of the schematic that
\* has no component is not in the graph
AnReturn ==
    /\ ana.stage = "check"
    /\ ana' = [ana EXCEPT !.stage = "done", !.printed = check_positions(graph, gpos),
                          !.err = IF Members(AnNodes) \subseteq Members(graph.nodes) THEN ""
                                  ELSE "AttributeError"]
    /\ UNCHANGED <<graph, dist, gpath, gpos, unknown, grOthers>>

AnNext ==
    \/ AnStart
    \/ LpTraverse
    \/ LpMakepath
    \/ AssignLongest
    \/ AssignFixed
    \/ AssignStretch
    \/ AnReturn

SpecGraph == AnInit /\ [][AnNext]_vars

(***************************************************************************)
(* Properties of InverseLaplaceTransformer.term                            *)
(***************************************************************************)
Done == out.path \in Finals

Atoms(b) == DOMAIN b

Ambiguous(d) == d # DZero /\ ~IsNegative(d) /\ ~IsPositive(d)

\* C1: whenever the delay extracted from the term is negative (a time advance), term fails;
\* no path through term returns a result.
C1_TimeAdvanceFails == (Done /\ IsNegative(out.delay)) => ~out.ok

\* C2: every successful return of term for a term with a non-zero extracted delay yields
\* cresult and uresult shifted in time by that delay.
C2_DelayReapplied ==
    (Done /\ out.ok /\ out.delay # DZero) =>
        \A x \in Atoms(out.c) \cup Atoms(out.u) : x.shift = out.delay

\* C3: with causal=True and a zero extracted delay, every successful return of term has a
\* zero general part.
C3_CausalMerged == (Done /\ out.ok /\ kw.causal /\ out.delay = DZero) => out.u = Zero

\* C4 as stated: when the sign of the non-zero extracted delay cannot be determined, the
\* transform fails.
C4_AmbiguousDelayFails == (Done /\ Ambiguous(out.delay)) => ~out.ok

\* C4 amended: when the sign of the non-zero extracted delay cannot be determined and term1
\* has succeeded (at once or on the simplified expression), term does not fail: it emits
\* the diagnostic that the delay is assumed positive, gates the shifted general part with a
\* unit step at t = delay, merges it into cresult and returns uresult = 0.
C4_AmbiguousDelayAssumed ==
    (Done /\ Ambiguous(out.delay) /\ out.path \in {"direct", "retry"}) =>
        /\ out.ok
        /\ "Assuming delay is positive" \in out.diag
        /\ out.u = Zero
        /\ \A x \in Atoms(out.c) : x.shift = out.delay

C4_Witness ==
    /\ Done /\ Ambiguous(out.delay) /\ out.path = "direct" /\ out.ok
    /\ \E x \in Atoms(out.c) : x.gate = [on |-> TRUE, at |-> out.delay]

\* C5: in every pair returned by term, cresult consists only of Dirac deltas and their
\* derivatives and of components multiplied by an explicit unit step.
C5_CausalPartShape ==
    (Done /\ out.ok) => \A x \in Atoms(out.c) : IsDelta(x) \/ x.gate.on

\* C6: every Dirac delta or delta derivative the inverse transformer produces is returned in
\* cresult, never in uresult, and is never multiplied by a unit step.
C6_ImpulsesInCausalPart ==
    (Done /\ out.ok) =>
        /\ \A x \in Atoms(out.u) : ~IsDelta(x)
        /\ \A x \in Atoms(out.c) : IsDelta(x) => ~x.gate.on

(***************************************************************************)
(* Properties of the naming rules                                          *)
(***************************************************************************)
AsciiLower == {"v", "x", "s"}

AsciiUpper == {"V", "X", "S"}

Caseless == {"_"}

\* C7 as stated: for every name, forward naming then inverse naming returns the original
\* name, likewise inverse then forward, and distinct time-domain names never map to the
\* same frequency-domain name.
C7_RoundTrip ==
    /\ trail \in {<<"F", "I">>, <<"I", "F">>} => name = orig
    /\ trail = <<"F">> => \A other \in Names : other # orig => FwdName(other) # name

\* C7 amended: for every name whose first character is an ASCII lower-case letter or has no
\* case, forward naming then inverse naming returns the original name; for every name whose
\* first character is an ASCII upper-case letter or has no case, inverse naming then forward
\* naming returns it; and two distinct names whose first characters are ASCII lower-case
\* letters or caseless never map to the same frequency-domain name.
C7_RoundTripCased ==
    /\ (trail = <<"F", "I">> /\ Head(orig) \in AsciiLower \cup Caseless) => name = orig
    /\ (trail = <<"I", "F">> /\ Head(orig) \in AsciiUpper \cup Caseless) => name = orig
    /\ (trail = <<"F">> /\ Head(orig) \in AsciiLower \cup Caseless) =>
            \A other \in Names :
                (other # orig /\ Head(other) \in AsciiLower \cup Caseless) =>
                    FwdName(other) # name

C7_Witness ==
    /\ trail = <<"F", "I">> /\ Head(orig) = "v" /\ Len(orig) = MaxNameLen
    /\ name = orig

(***************************************************************************)
(* Properties of the pole loop of ratfun                                   *)
(***************************************************************************)
LoopOver == idx > Len(poles)

Accounted(p) == {k \in DOMAIN emitted : p \in emitted[k].poles}

\* C9: each pole is accounted for exactly once in uresult: the conjugate consumed by a fold
\* is not emitted again, no pole is counted twice, and no entry of the multiplicity map
\* becomes negative.
C9_EachPoleOnce ==
    /\ \A p \in DOMAIN polesdict : polesdict[p] >= 0
    /\ LoopOver => \A i \in DOMAIN poles : Cardinality(Accounted(poles[i].p)) = 1

RECURSIVE Factorial(_)
Factorial(n) == IF n <= 0 THEN 1 ELSE n * Factorial(n - 1)

\* the terms of uresult that belong to pole p
TermsOf(p) == {x \in Atoms(uacc) : x.a = p}

Repeated(k) == emitted[k].kind = "repeated"

\* C10 as stated: for a pole p of remaining multiplicity o > 1 the n-th term added is
\* r_n * exp(p*t) * t^(n-1), with no other scaling, for n = 1..o.
C10_NoOtherScaling ==
    \A k \in DOMAIN emitted : Repeated(k) =>
        \A p \in emitted[k].poles :
            TermsOf(p) = {ExpTerm(p, n - 1, emitted[k].o - n, 1) : n \in 1 .. emitted[k].o}

\* C10 amended: for a pole p of remaining multiplicity o > 1 the loop adds, for each
\* n = 1..o, exactly the term r_n * exp(p*t) * t^(n-1) / (n-1)!, once, where r_n is the
\* limit at s = p of the (o-n)-th derivative of (s-p)^o * M/D divided by (o-n)!.
C10_DividedByFactorial ==
    \A k \in DOMAIN emitted : Repeated(k) =>
        \A p \in emitted[k].poles :
            /\ emitted[k].o > 1
            /\ TermsOf(p) = {ExpTerm(p, n - 1, emitted[k].o - n, Factorial(n - 1)) :
                                n \in 1 .. emitted[k].o}
            /\ \A x \in TermsOf(p) : uacc[x] = 1

C10_Witness ==
    \E k \in DOMAIN emitted :
        /\ Repeated(k) /\ emitted[k].o = MaxMult /\ emitted[k].poles = {3}
        /\ ExpTerm(3, MaxMult - 1, 0, Factorial(MaxMult - 1)) \in Atoms(uacc)

(***************************************************************************)
(* Linearity of the two dispatchers                                        *)
(***************************************************************************)
Transformed == linout # <<>>

RatfunReturned ==
    /\ out.path = "got"
    /\ Len(expr.fs) = 1 /\ expr.fs[1].k = "rat"
    /\ ~(kw.damped_sin /\ RatDegree(expr.fs[1].r) = 2)

\* the sum of C[i] * Delta(order(i)) over the coefficients C[i] # 0, where order(i) is
\* Len(C) - i if descending and i - 1 if not
DeltaSum(C, descending) ==
    LET I == {i \in DOMAIN C : C[i] # 0}
        order(i) == IF descending THEN Len(C) - i ELSE i - 1
    IN [x \in {Delta(order(i)) : i \in I} |-> C[CHOOSE i \in I : Delta(order(i)) = x]]

\* C11 as stated: the i-th coefficient (counted from 0) of the quotient, listed in
\* descending powers of s, is paired with the i-th derivative of the Dirac delta, and the
\* sum is always returned in cresult, also when the remainder M/D is degenerate.
C11_QuotientAscending ==
    RatfunReturned =>
        LET C == expr.fs[1].r.q
        IN out.c = Scale(expr.const, DeltaSum(C, FALSE))

\* C11 amended: with the k + 1 coefficients of the quotient listed in descending powers of
\* s, the i-th coefficient (counted from 0) is paired with the derivative of order k - i of
\* the Dirac delta, and the sum is returned in cresult; when M/D has an infinite factor
\* ratfun returns a zero cresult and that factor as uresult, and the quotient is dropped.
C11_QuotientDescending ==
    RatfunReturned =>
        LET C == expr.fs[1].r.q
        IN IF expr.fs[1].r.inf
           THEN out.c = Zero /\ \A x \in Atoms(out.u) : x.k = "oo"
           ELSE /\ out.c = Scale(expr.const, DeltaSum(C, TRUE))
                /\ \A x \in Atoms(out.u) : ~IsDelta(x)

C11_Witness ==
    /\ RatfunReturned /\ expr.fs[1].r = RImproper /\ expr.const = CNum(MaxConst)
    /\ Atoms(out.c) = {Delta(1), Delta(0)}

(***************************************************************************)
(* Properties of the forward dispatcher                                    *)
(***************************************************************************)
FDone == fout.pos = "done"

\* the irreducible term at hand contains a Dirac delta
HasDelta == Len(ExpandTerms(FBody)) <= 1 /\ HasKind(FBody, {"dirac"})

\* C12: every term that contains a Dirac delta is evaluated with the 0-minus lower limit
\* first: do_0 is used for it only after do_0minus has been tried and has failed.
C12_ZeroMinusFirst ==
    (FDone /\ HasDelta) =>
        \A i \in DOMAIN fout.tried :
            fout.tried[i] = "do_0" => \E j \in 1 .. i - 1 : fout.tried[j] = "do_0minus"

(***************************************************************************)
(* Properties of InverseLaplaceTransformer.product                         *)
(***************************************************************************)
\* The atoms of a result, with those inside its derivatives and integrals
RECURSIVE Inner(_)
Inner(b) == UNION {{x} \cup UNION {Inner(x.sub[i]) : i \in DOMAIN x.sub} : x \in DOMAIN b}

IntegralsOf(b) == {x \in Inner(b) : x.k \in {"integ", "conv"}}

\* C13: in every result the integral for V(s)/s runs from 0 to t if causal and from
\* -oo to t otherwise, a convolution runs over [0, t] if causal and over (-oo, oo)
\* otherwise, and no integral uses the dummy variable of an integral nested in it.
C13_CausalLimits ==
    (Done /\ out.ok) =>
        \A x \in IntegralsOf(out.c (+) out.u) :
            /\ x.k = "integ" => x.nm = <<IF kw.causal THEN "0" ELSE "-oo", "t">>
            /\ x.k = "conv" => x.nm = IF kw.causal THEN <<"0", "t">> ELSE <<"-oo", "oo">>
            /\ \A i \in DOMAIN x.sub : \A y \in IntegralsOf(x.sub[i]) : y.a # x.a

\* 2*V(s)*Y(s)/s without the causal flag: the convolution over (-oo, oo) of the integral
\* of v from -oo to t with y, with two dummy variables
C13_Witness ==
    /\ Done /\ out.ok /\ ~kw.causal /\ expr.const = CNum(MaxConst)
    /\ \E x \in Atoms(out.c) :
          /\ x.k = "conv" /\ x.nm = <<"-oo", "oo">> /\ x.a = 1
          /\ \E y \in Atoms(x.sub[1]) : y.k = "integ" /\ y.nm = <<"-oo", "t">> /\ y.a = 0

(***************************************************************************)
(* Properties of the symbol registry                                       *)
(***************************************************************************)
\* C14: a name with an entry in the symbol table keeps its symbol in every call that does
\* not pass the name to symbol_delete, and sympify of the name, whatever the assumptions
\* and the override flag, returns that symbol.
C14_RegistryStable ==
    [][\A n \in DOMAIN symbols :
          /\ n \notin symcall'.deleted => n \in DOMAIN symbols' /\ symbols'[n] = symbols[n]
          /\ (symcall'.op = "sympify" /\ symcall'.arg = <<n>>) => symret' = <<symbols[n]>>]_vars

\* sympify('a', real=True, override=True) has returned the positive symbol a of the table
C14_Witness ==
    /\ symcall.op = "sympify" /\ symcall.arg = <<"a">> /\ symcall.override
    /\ symcall.assume = [positive |-> "unset", real |-> TRUE]
    /\ "a" \in DOMAIN symbols /\ symret = <<symbols["a"]>>
    /\ symbols["a"] = [name |-> "a", positive |-> "yes", real |-> FALSE]

(***************************************************************************)
(* Properties of DLTIFilter.response                                       *)
(***************************************************************************)
\* y at the time index m: an initial condition before the first index of ni
YAt(m) ==
    LET first == filt.ni[1] IN
    IF m >= first THEN ret_seq.vals[m - first + 1] ELSE Q(IcOf(filt)[first - m], 1)

\* the sum of a[k] * y[n - k] from k on, and the sum of b[l] * x[n - l] from l on
RECURSIVE Feedback(_, _)
Feedback(nval, k) ==
    IF k > Len(filt.a) - 1 THEN Q(0, 1)
    ELSE QAdd(QMul(Q(filt.a[k + 1], 1), YAt(nval - k)), Feedback(nval, k + 1))

RECURSIVE Feedforward(_, _)
Feedforward(nval, l) ==
    IF l > Len(filt.b) - 1 THEN Q(0, 1)
    ELSE QAdd(Q(filt.b[l + 1] * XAt(filt.x, nval - l), 1), Feedforward(nval, l + 1))

\* C15: with len(ic) = len(a) - 1 the call returns len(ni) values, and each of them
\* satisfies a[0]*y[n] = sum_l b[l]*x[n-l] - sum_{k>=1} a[k]*y[n-k], where y before the
\* first index of ni is given by ic.
C15_DifferenceEquation ==
    (fi.pos = "done" /\ Len(IcOf(filt)) = Len(filt.a) - 1) =>
        /\ ret_seq.ok
        /\ Len(ret_seq.vals) = Len(NiOf(filt))
        /\ \A j \in DOMAIN ret_seq.vals :
              LET nval == filt.ni[1] + j - 1 IN
              QAdd(QMul(Q(filt.a[1], 1), ret_seq.vals[j]), Feedback(nval, 1))
                  = Feedforward(nval, 0)

\* a second-order filter with a[0] = 2 and different a[1], a[2], three outputs from
\* index -1 on, two different initial conditions
C15_Witness ==
    /\ fi.pos = "done" /\ ret_seq.ok /\ Len(ret_seq.vals) = MaxLenNi
    /\ filt.a = <<2, -1, 2>> /\ filt.ic = <<1, 3>> /\ filt.ni[1] = -1 /\ filt.x = "ramp"
    /\ \E j \in DOMAIN ret_seq.vals : ret_seq.vals[j].d > 1

(***************************************************************************)
(* Properties of the fallback chains                                       *)
(***************************************************************************)
\* term1 has been called on a rational function of degree 2 with damped_sin enabled, and
\* do_damped_sin fails for it
DampedSinFailed ==
    /\ out.path \in {"got", "except"}
    /\ Len(expr.fs) = 1 /\ expr.fs[1].k = "rat"
    /\ kw.damped_sin /\ RatDegree(expr.fs[1].r) = 2
    /\ ~do_damped_sin(expr.fs[1].r).ok

\* C16: when do_damped_sin fails, ratfun goes on with the general path and its caller
\* term1 gets the result of that path: the quotient and the pole terms of the expression.
C16_DampedSinRecovers ==
    DampedSinFailed =>
        LET general == ratfun(Ex(CNum(1), expr.fs), [kw EXCEPT !.damped_sin = FALSE]) IN
        /\ out.path = "got"
        /\ out.c = Scale(expr.const, general.c)
        /\ out.u = Scale(expr.const, general.u)

\* The number of terms the expansion of line 355 gives
NTerms == Len(ExpandTerms(TermBody))

\* C17 as stated: the product rule is attempted only if the expansion yields no more than
\* one term, so no result of the product rule is returned for an expression of several
\* terms.
C17_ExpandFirst == out.path = "product" => NTerms <= 1

\* C17: after term1 has failed, an expression that expands into several terms is first
\* handed to the product rule as a whole, and its terms are transformed one by one only
\* after the product rule has failed; an expression of one term is simplified and tried
\* again, the product rule is not attempted for it, and SymPy's routine comes last: what
\* it cannot resolve is raised as an error.
C17_ProductFirst ==
    /\ out.path \in {"product", "split", "terms"} => NTerms > 1
    /\ out.path \in {"split", "terms"} => ~product(TermBody, kw).ok
    /\ out.path \in {"retrying", "got2", "failed2", "retry", "sympy"} => NTerms <= 1
    /\ out.path = "sympy" =>
          /\ ~term1(Simplify(TermBody), kw).ok
          /\ out.ok <=> SympyResolves(Simplify(TermBody))

\* (1 + s)*s**a with a positive: term1 fails, the expansion has two terms, and the
\* convolution the product rule makes of the two factors is returned
C17_Witness ==
    /\ out.path = "product" /\ out.ok /\ NTerms = 2
    /\ \E i \in DOMAIN expr.fs : expr.fs[i].k = "pow"
    /\ \E x \in Atoms(out.c) : x.k = "conv"

\* C18: the fallback chain of term is entered only by a classified rule failure: when
\* term is in one of its except branches (lines 352 and 379), what term1 raised is a
\* ValueError, and no error of another class (recursion overflow, a missing attribute or
\* index, a type error) has been caught.
C18_ClassifiedOnly == out.path \in {"except", "failed2"} => IsValueError(out)

StatedRank(rule) ==
    CASE rule = "func" -> 1 [] rule = "derivative_undef" -> 2 [] rule = "shift" -> 3
      [] rule = "sin_cos" -> 4 [] rule = "integral" -> 5 [] rule = "do_0minus" -> 6
      [] OTHER -> 7

\* The place of each rule in the order of lines 249-286
CodeRank(rule) ==
    CASE rule = "integral" -> 1 [] rule = "sin_cos" -> 2 [] rule = "derivative_undef" -> 3
      [] rule = "func" -> 4 [] rule = "shift" -> 5 [] rule = "do_0minus" -> 6
      [] OTHER -> 7

\* The first rule of lines 249-286 that the term matches
FirstRule ==
    IF HasKind(FBody, {"integral"}) THEN "integral"
    ELSE IF HasKind(FBody, {"sincos"}) THEN "sin_cos"
    ELSE IF HasKind(FBody, {"undef", "deriv"}) THEN UndefRule(FBody)
    ELSE IF HasKind(FBody, {"dirac", "step"}) /\ ~HasKind(FBody, {"step0"}) THEN "do_0minus"
    ELSE "do_0"

\* C20 as stated: the rules tried for a term follow one another in the order unknown
\* function, derivative, frequency shift, sin/cos, integral, impulse and step, default.
C20_StatedOrder ==
    (FDone /\ Len(ExpandTerms(FBody)) <= 1) =>
        \A i, j \in DOMAIN fout.tried :
            i < j => StatedRank(fout.tried[i]) < StatedRank(fout.tried[j])

\* C20: the rules tried for a term follow one another in the order integral, sin/cos,
\* derivative of an unknown function, unknown function, frequency shift, impulse and
\* step, default.  The first rule the term matches is tried first, and another rule
\* follows only a failed sin/cos rule or a 0-minus evaluation that raised ValueError.
C20_CodeOrder ==
    (FDone /\ Len(ExpandTerms(FBody)) <= 1) =>
        LET tr == fout.tried IN
        /\ tr[1] = FirstRule
        /\ \A i, j \in DOMAIN tr : i < j => CodeRank(tr[i]) < CodeRank(tr[j])
        /\ \A i \in 1 .. Len(tr) - 1 : tr[i] \in {"sin_cos", "do_0minus"}
        /\ tr[Len(tr)] = "sin_cos" => fout.ok
        /\ tr[Len(tr)] = "do_0minus" => ~IsValueError(fout)

\* 2*sin(t)*Derivative(v(t), t): the sin/cos rule is tried and fails, then the
\* derivative rule decides
C20_Witness ==
    /\ FDone /\ fout.tried = <<"sin_cos", "derivative_undef">>
    /\ FFactored.const = CNum(MaxConst)

\* C21: the mutual recursion of term1 and product ends for every expression: no call of
\* term1 made by term ends with Python's recursion limit exceeded.
C21_RecursionBounded == out.path \in {"got", "except", "got2", "failed2"} => out.err # "RecursionError"

\* C22: when term1 has succeeded and the extracted delay is non-zero and not negative, the
\* step that finishes term returns cresult shifted by the delay plus the shifted uresult
\* times a unit step at t = delay, and a zero uresult, whatever the causal flag; without
\* the flag the warning is emitted.
C22_PositiveDelayGated ==
    [][(out.path \in {"got", "got2"} /\ out.delay # DZero /\ ~IsNegative(out.delay)) =>
          /\ out'.ok /\ out'.path \in {"direct", "retry"}
          /\ out'.u = Zero
          /\ out'.c = Subs(out.c, out.delay)
                          (+) TimesHeaviside(Subs(out.u, out.delay), out.delay)
          /\ ~kw.causal => "Warning, assuming causal expression" \in out'.diag]_vars

\* a term with a delay known to be positive, without the causal flag: the general part of
\* term1 has been gated at the delay and the warning emitted
C22_Witness ==
    /\ Done /\ out.path = "direct" /\ out.ok /\ IsPositive(out.delay) /\ ~kw.causal
    /\ out.u = Zero
    /\ "Warning, assuming causal expression" \in out.diag
    /\ \E x \in Atoms(out.c) : x.gate = [on |-> TRUE, at |-> out.delay] /\ x.shift = out.delay

\* The factor list is an optional exponential, one sin or cos, an optional Heaviside
ExpSinPattern(fs) ==
    LET m == IF Len(fs) > 0 /\ fs[1].k = "texp" THEN 2 ELSE 1 IN
    /\ Len(fs) \in {m, m + 1}
    /\ fs[m].k = "sincos"
    /\ Len(fs) = m + 1 => fs[m + 1].k \in {"step0", "step"}

\* C23: the sin/cos rule returns a closed form only for a factor list of exactly that
\* pattern; with any other factor list it fails and the dispatcher goes on.
C23_ExactPattern ==
    (FDone /\ fout.ok /\ fout.tried = <<"sin_cos">>) => ExpSinPattern(FBody.fs)

\* term has applied derivative_undef to a single derivative
DerivativeRuleDone ==
    /\ FDone /\ fout.tried # <<>> /\ fout.tried[Len(fout.tried)] = "derivative_undef"
    /\ Len(FBody.fs) = 1 /\ FBody.fs[1].k = "deriv"

\* C24: the n-th derivative by t of an unknown function v(t) becomes s^n V(s) with no
\* initial-value term; the rule fails with a ValueError when the operand is no applied
\* unknown function or the variable is not t.
C24_DerivativeRule ==
    DerivativeRuleDone =>
        IF FBody.fs[1].a = ""
        THEN /\ fout.ok
             /\ fout.c = Scale(FFactored.const,
                               FAtom("Fderiv", FwdName(FBody.fs[1].nm), FBody.fs[1].sc, <<>>))
        ELSE IsValueError(fout)

(***************************************************************************)
(* InverseLaplaceTransformer.key.  kwargs holds the flags as the rules    *)
(* read them; omitted tells that the call did not pass damped_sin, which   *)
(* ratfun then reads as False (line 108) and key as True (line 37).        *)
(***************************************************************************)
key(e, kwargs, omitted) == <<e, kwargs.causal, IF omitted THEN TRUE ELSE kwargs.damped_sin>>

\* kwargs.get('damped_sin', False) of a call that omits the flag
ReadAs(kwargs, omitted) == omitted => ~kwargs.damped_sin

\* term1 has been called on a rational function
Term1OnRatfun ==
    /\ out.path \in {"got", "except"}
    /\ Len(expr.fs) = 1 /\ expr.fs[1].k = "rat"

\* C25: two calls with equal keys take the same decisions and have the same result; a
\* call that omits damped_sin behaves as the call passing the value key assumes for it.
C25_KeyConsistent ==
    Term1OnRatfun =>
        \A kwargs \in Kwargs, o1 \in BOOLEAN, o2 \in BOOLEAN :
            (/\ ReadAs(kw, o1) /\ ReadAs(kwargs, o2) /\ kwargs.gamma = kw.gamma
             /\ key(expr, kw, o1) = key(expr, kwargs, o2))
            => LET other == term1(TermBody, kwargs) IN
               out.ok = other.ok /\ out.c = other.c /\ out.u = other.u /\ out.err = other.err

(***************************************************************************)
(* Properties of the context stack                                         *)
(***************************************************************************)
\* The contexts that were current before each switch not yet undone, oldest first
RECURSIVE Unmatched(_)
Unmatched(h) ==
    IF h = <<>> THEN <<>>
    ELSE LET before == Unmatched(SubSeq(h, 1, Len(h) - 1))
             last == h[Len(h)]
         IN CASE last.op = "switch" -> Append(before, last.from)
              [] last.op = "restore" -> SubSeq(before, 1, Len(before) - 1)
              [] OTHER -> before

\* C26: after a restore the current context is the one that was current before the
\* matching switch, the global assumptions are those of that context, the assumptions
\* present when the context was left are held by the context left, and previous_context
\* is as deep as there are switches not undone.
C26_StackDiscipline ==
    [][(calls' # calls /\ calls'[Len(calls')].op = "restore") =>
          LET open == Unmatched(calls) IN
          /\ state'.context = open[Len(open)]
          /\ global_assumptions' = state'.assumptions[state'.context + 1]
          /\ global_assumptions \subseteq state'.assumptions[state.context + 1]
          /\ Len(state'.previous_context) = Len(Unmatched(calls'))
          /\ state'.previous_context = Unmatched(calls')]_vars

\* two nested switches, the inner one undone: the context left holds an assumption made
\* while it was current, and the global assumptions are those of the context gone back to
C26_Witness ==
    /\ Len(calls) = 3 /\ calls[1].op = "switch" /\ calls[2].op = "switch"
    /\ calls[3].op = "restore" /\ calls[3].from # calls[3].to
    /\ Len(state.previous_context) = 1
    /\ state.context = calls[3].to
    /\ state.assumptions[calls[3].from + 1] # {}
    /\ global_assumptions = state.assumptions[state.context + 1]
    /\ global_assumptions # state.assumptions[calls[3].from + 1]

\* C27: symsymbol on the name of a domain symbol raises ValueError and leaves the symbol
\* tables as they are if force is not set; with force=True it deletes the old definition
\* and returns a newly defined symbol, registered as a user symbol.
C27_DomainProtected ==
    [][\A nm \in domain_symbols :
          (symcall' # symcall /\ symcall'.op = "symsymbol" /\ symcall'.arg = <<nm>>) =>
              IF symcall'.force
              THEN /\ symcall'.err = "" /\ symcall'.deleted = {nm}
                   /\ nm \in user_symbols' /\ nm \in DOMAIN symbols' /\ Len(symret') = 1
              ELSE /\ symcall'.err = "ValueError"
                   /\ UNCHANGED <<symbols, user_symbols, domain_symbols>>]_vars

(***************************************************************************)
(* Properties of Cnodes                                                    *)
(***************************************************************************)
\* the nodes of cnodes[n] are n and its common nodes, each once, and all of them have the
\* same tuple
WellFormed(cn) ==
    \A n \in DOMAIN cn :
        /\ n \in Members(cn[n])
        /\ \A i, j \in DOMAIN cn[n] : cn[n][i] = cn[n][j] => i = j
        /\ \A m \in Members(cn[n]) : cn[m] = cn[n]

\* C29: every node's tuple contains the node, has no duplicates and is the tuple of each
\* of its members; link(n1, n2) makes the tuples of n1 and n2 equal, and a link of two
\* nodes that share a tuple already changes nothing.
C29_Classes ==
    /\ cnodes # <<>> => WellFormed(cnodes)
    /\ linked # <<>> => cnodes[linked[1]] = cnodes[linked[2]]
    /\ cnodes # <<>> =>
          \A n1, n2 \in CNodes : cnodes[n1] = cnodes[n2] => link(cnodes, n1, n2) = cnodes

\* three nodes linked in two steps, the second link joining a class of two
C29_Witness ==
    /\ linked # <<>> /\ linked[1] # linked[2]
    /\ \E n \in CNodes : Len(cnodes[n]) = 3 /\ cnodes[n][1] # n
    /\ \E n \in CNodes : Len(cnodes[n]) = 1

(***************************************************************************)
(* Properties of Graph.longest_path                                        *)
(***************************************************************************)
\* The largest total size of a path from gnode to to_gnode, -1 if there is none
RECURSIVE Longest(_, _, _)
Longest(g, gnode, to_gnode) ==
    IF gnode = to_gnode THEN 0
    ELSE LET reach == {g.fedges[gnode][i].size + Longest(g, g.fedges[gnode][i].to, to_gnode) :
                          i \in {j \in DOMAIN g.fedges[gnode] :
                                    Longest(g, g.fedges[gnode][j].to, to_gnode) >= 0}}
         IN IF reach = {} THEN -1 ELSE CHOOSE x \in reach : \A y \in reach : y <= x

\* p is a sequence of edges of g that leads from from_gnode to to_gnode
Connects(g, p, from_gnode, to_gnode) ==
    /\ p # <<>> /\ p[1].from = from_gnode /\ p[Len(p)].to = to_gnode
    /\ \A i \in DOMAIN p : \E j \in DOMAIN g.fedges[p[i].from] : g.fedges[p[i].from][j] = p[i]
    /\ \A i \in 1 .. Len(p) - 1 : p[i].to = p[i + 1].from

\* C28: on a directed acyclic graph in which to_gnode can be reached from from_gnode,
\* longest_path returns a connected path from from_gnode to to_gnode whose total size is
\* the largest of all paths between the two.
C28_LongestPath ==
    (ana.op = "longest_path" /\ ana.stage = "done"
        /\ Longest(graph, ana.from, ana.to) >= 0) =>
            /\ ana.err = ""
            /\ Connects(graph, gpath, ana.from, ana.to)
            /\ PathDist(gpath) = Longest(graph, ana.from, ana.to)

(***************************************************************************)
(* Properties of Graph.analyse                                             *)
(***************************************************************************)
\* the edges of the components: those of start and end belong to no component
Components(g) ==
    {e \in UNION {Members(g.fedges[n]) : n \in Members(g.nodes)} : e.cpt # 0}

\* every node has a position and every component has its size, or at least its size if
\* it may stretch
Consistent(g, ps) ==
    /\ Members(AnNodes) \subseteq DOMAIN ps
    /\ \A e \in Components(g) :
          /\ {e.from, e.to} \subseteq DOMAIN ps
          /\ IF e.stretch THEN ~QLess(QSub(ps[e.to], ps[e.from]), Q(e.size, 1))
             ELSE QSub(ps[e.to], ps[e.from]) = Q(e.size, 1)

\* C30: when analyse returns without an exception, every node has a position, the ends of
\* every component that does not stretch are its size apart and the ends of every
\* component that stretches at least its size.
C30_PositionsConsistent ==
    (ana.op = "analyse" /\ ana.stage = "done" /\ ana.err = "") => Consistent(graph, gpos)

====
